---- MODULE Spec2Model ----
(***************************************************************************)
(* AlphaPulse signal pipeline: SignalProcessor (process_buy_event,         *)
(* enrich_and_validate_signal, create_alert, mark_alert_sent),             *)
(* HeliusWebhookHandler.handle_webhook, the webhook endpoint of main.py    *)
(* with the delivery of alerts by AlphaPulseBot.send_alert,                *)
(* OutcomeTracker (check_alert_outcome, check_pending_alerts),             *)
(* ConvictionCalculator (calculate_score, update_all_scores), Backtester   *)
(* (run_backtest), the periodic loops of main.py that drive the outcome    *)
(* checks and the score updates, and the adding, removing and discovery of *)
(* wallets, over the wallet, token, trade, cluster-event and alert stores. *)
(*                                                                         *)
(* Units.  Time is in minutes.  SOL amounts (sol_amount, market cap,       *)
(* volumes) are in tenths of a SOL.  Percentages of supply are in          *)
(* hundredths of a percent; the total supplies drawn divide 10000, so the  *)
(* quotient token_amount / total_supply * 100 is exact in that unit.       *)
(* Prices are integers chosen so that the return of an alert, in percent,  *)
(* is an integer too.  Python's None is the integer None below for the     *)
(* optional numbers, and the empty sequence for an optional row or an      *)
(* optional number that may be negative (<<v>> when present).  Conviction  *)
(* scores and their components are in hundredths of a point, win rates in  *)
(* whole percent; a backtest's pnl_pct is in whole percent and its pnl_sol *)
(* in thousandths of a SOL.                                                *)
(***************************************************************************)
EXTENDS Integers, Sequences, FiniteSets, TLC

None == -1

\* ---------------------------------------------------------------- config
high_conviction_min_sol == 10
high_conviction_min_supply_pct == 50
cluster_min_wallets == 2
cluster_window_minutes == 5
cluster_min_sol == 5
\* 0.1 as a ratio, held as a percentage of market cap
volume_spike_threshold == 10
new_token_max_age_minutes == 60
\* the trailing window of _check_volume_spike, timedelta(minutes=5)
volume_window_minutes == 5

\* ---------------------------------------------------------------- inputs
StoredWallets == {"W1", "W2"}
UnknownWallet == "WX"
NumSigs == 2
Sigs == 1..NumSigs
MaxDelay == 3
MaxClusterEvents == 2
MaxAlerts == 2
MaxRuns == 2
\* The calls of is_allowed a behaviour records at most.
MaxCalls == 4

HIGH_CONVICTION == "high_conviction"
CLUSTER_BUY == "cluster_buy"
VOLUME_SPIKE == "volume_spike"
SignalTypes == {HIGH_CONVICTION, CLUSTER_BUY, VOLUME_SPIKE}

VARIABLES now, wallets, tracked, tokens, trades, clusters, alerts, last, first,
          held, bot, sink, outcomes, out, loops, limiter, calls

vars == <<now, wallets, tracked, tokens, trades, clusters, alerts, last, first,
          held, bot, sink, outcomes, out, loops, limiter, calls>>

\* ---------------------------------------------------------------- helpers
RECURSIVE SumSol(_)
SumSol(s) == IF s = <<>> THEN 0 ELSE Head(s).sol_amount + SumSol(Tail(s))

RECURSIVE MaxSupply(_, _)
MaxSupply(s, acc) ==
    IF s = <<>> THEN acc
    ELSE MaxSupply(Tail(s),
                   IF Head(s).supply_percentage > acc
                   THEN Head(s).supply_percentage ELSE acc)

RECURSIVE WalletsInOrder(_, _)
WalletsInOrder(s, acc) ==
    IF s = <<>> THEN acc
    ELSE WalletsInOrder(Tail(s),
                        IF \E i \in DOMAIN acc : acc[i] = Head(s).wallet_id
                        THEN acc ELSE Append(acc, Head(s).wallet_id))

RECURSIVE SumWinRate(_, _)
SumWinRate(ws, s) ==
    IF s = <<>> THEN 0 ELSE ws[Head(s)].win_rate + SumWinRate(ws, Tail(s))

SetMin(S) == CHOOSE x \in S : \A y \in S : x <= y
SetMax(S) == CHOOSE x \in S : \A y \in S : x >= y

RECURSIVE SumOver(_, _)
SumOver(f, S) ==
    IF S = {} THEN 0
    ELSE LET x == CHOOSE y \in S : TRUE IN f[x] + SumOver(f, S \ {x})

Truthy(x) == x # None /\ x # 0

\* ---------------------------------------------------------------- models.py
age_minutes(token, t) ==
    IF token.launched_at = None THEN 0 ELSE t - token.launched_at

\* a lookup that returns a wallet for every address
get_by_address_any(ws, address) == <<address>>

get_by_address(ws, address) ==
    IF address \in DOMAIN ws THEN <<address>> ELSE <<>>

get_wallet_addresses(ws) == {a \in DOMAIN ws : ws[a].is_active}

\* the SmartWallet row of a new address, by the column defaults
NewWalletRow ==
    [is_active |-> TRUE, win_rate |-> 0, pnl_total_sol |-> 0,
     conviction_score |-> 0, last_activity |-> None]

\* an upsert that builds the row anew from the data and the defaults
upsert_wallet_replacing(ws, address, data) ==
    [a \in DOMAIN ws \cup {address} |->
        IF a = address
        THEN [c \in DOMAIN NewWalletRow |->
                IF c \in DOMAIN data THEN data[c] ELSE NewWalletRow[c]]
        ELSE ws[a]]

\* upsert_wallet: the columns named in data are set on the row of the
\* address, which is created with the defaults when there is none
upsert_wallet(ws, address, data) ==
    [a \in DOMAIN ws \cup {address} |->
        IF a = address
        THEN [c \in DOMAIN NewWalletRow |->
                IF c \in DOMAIN data THEN data[c]
                ELSE IF address \in DOMAIN ws THEN ws[address][c]
                ELSE NewWalletRow[c]]
        ELSE ws[a]]

get_recent_buys_for_token(trs, token_id, minutes, t) ==
    SelectSeq(trs, LAMBDA x : /\ x.token_id = token_id
                              /\ x.trade_type = "BUY"
                              /\ x.block_time >= t - minutes)

\* a cluster condition that counts the qualifying trades, not their wallets
check_cluster_condition_by_trades(trs, token_id, min_wallets, window_mins, min_sol, t) ==
    LET recent == get_recent_buys_for_token(trs, token_id, window_mins, t)
        qualifying_trades == SelectSeq(recent, LAMBDA x : x.sol_amount >= min_sol)
    IN  [is_cluster |-> Len(qualifying_trades) >= min_wallets,
         trades |-> qualifying_trades]

check_cluster_condition(trs, token_id, min_wallets, window_mins, min_sol, t) ==
    LET recent == get_recent_buys_for_token(trs, token_id, window_mins, t)
        qualifying_trades == SelectSeq(recent, LAMBDA x : x.sol_amount >= min_sol)
        unique_wallets == {qualifying_trades[i].wallet_id : i \in DOMAIN qualifying_trades}
    IN  [is_cluster |-> Cardinality(unique_wallets) >= min_wallets,
         trades |-> qualifying_trades]

\* ---------------------------------------------------------------- signal_processor.py
NotTriggered(type) ==
    [triggered |-> FALSE, raised |-> FALSE, signal_type |-> type, token |-> "",
     trades |-> <<>>, wallets |-> <<>>, total_sol |-> 0, max_supply_pct |-> 0,
     details |-> [supply_pct |-> None],
     rug_checked |-> FALSE, rug_passed |-> TRUE, rug_risk_score |-> 0,
     rug_warnings |-> <<>>]

Raised(type) == [NotTriggered(type) EXCEPT !.raised = TRUE]

\* a supply percentage left as a ratio, not multiplied by 100
supply_percentage_ratio(token_amount, total_supply) ==
    IF total_supply # None /\ total_supply > 0
    THEN (token_amount * 100) \div total_supply
    ELSE 0

supply_percentage(token_amount, total_supply) ==
    IF total_supply # None /\ total_supply > 0
    THEN (token_amount * 100 * 100) \div total_supply
    ELSE 0

_get_or_create_token(toks, contract_address, market_cap, total_supply, t) ==
    IF contract_address \notin DOMAIN toks
    THEN [c \in DOMAIN toks \cup {contract_address} |->
            IF c = contract_address
            THEN [market_cap_sol |-> market_cap, total_supply |-> total_supply,
                  launched_at |-> t, is_rugged |-> FALSE]
            ELSE toks[c]]
    ELSE [toks EXCEPT
            ![contract_address].market_cap_sol =
                IF Truthy(market_cap) THEN market_cap ELSE @,
            ![contract_address].total_supply =
                IF Truthy(total_supply) THEN total_supply ELSE @]

existing_trade(trs, tx_signature) ==
    SelectSeq(trs, LAMBDA x : x.tx_signature = tx_signature)


\* a recording that overwrites the row of a signature already stored
_record_trade_upsert(trs, wallet, token, sol_amount, token_amount, supply_pct, tx_signature, block_time, market_cap) ==
    IF existing_trade(trs, tx_signature) # <<>>
    THEN [i \in DOMAIN trs |->
            IF trs[i].tx_signature = tx_signature
            THEN [wallet_id |-> wallet, token_id |-> token,
                  tx_signature |-> tx_signature, trade_type |-> "BUY",
                  sol_amount |-> sol_amount, token_amount |-> token_amount,
                  supply_percentage |-> supply_pct,
                  mcap_at_trade |-> market_cap, block_time |-> block_time]
            ELSE trs[i]]
    ELSE Append(trs, [wallet_id |-> wallet, token_id |-> token,
                      tx_signature |-> tx_signature, trade_type |-> "BUY",
                      sol_amount |-> sol_amount, token_amount |-> token_amount,
                      supply_percentage |-> supply_pct,
                      mcap_at_trade |-> market_cap, block_time |-> block_time])

_record_trade(trs, wallet, token, sol_amount, token_amount, supply_pct, tx_signature, block_time, market_cap) ==
    IF existing_trade(trs, tx_signature) # <<>>
    THEN trs
    ELSE Append(trs, [wallet_id |-> wallet, token_id |-> token,
                      tx_signature |-> tx_signature, trade_type |-> "BUY",
                      sol_amount |-> sol_amount, token_amount |-> token_amount,
                      supply_percentage |-> supply_pct,
                      mcap_at_trade |-> market_cap, block_time |-> block_time])

\* a trigger that is satisfied by either threshold
hc_triggered_either(sol_amount, supply_pct) ==
    \/ sol_amount >= high_conviction_min_sol
    \/ supply_pct >= high_conviction_min_supply_pct

hc_triggered(sol_amount, supply_pct) ==
    /\ sol_amount >= high_conviction_min_sol
    /\ supply_pct >= high_conviction_min_supply_pct

_check_high_conviction(wallet, trade, token, supply_pct, sol_amount) ==
    [triggered |-> hc_triggered(sol_amount, supply_pct), raised |-> FALSE,
     signal_type |-> HIGH_CONVICTION, token |-> token,
     trades |-> <<trade.tx_signature>>, wallets |-> <<wallet>>,
     total_sol |-> sol_amount, max_supply_pct |-> supply_pct,
     details |-> [wallet_address |-> wallet, sol_amount |-> sol_amount,
                  supply_pct |-> supply_pct],
     rug_checked |-> FALSE, rug_passed |-> TRUE, rug_risk_score |-> 0,
     rug_warnings |-> <<>>]


\* a snapshot that takes the first and the last trade of the list for the
\* earliest and the latest
_record_cluster_event_unordered(token, cluster_trades) ==
    LET addresses == {cluster_trades[i].wallet_id : i \in DOMAIN cluster_trades}
        first_time == cluster_trades[1].block_time
        last_time == cluster_trades[Len(cluster_trades)].block_time
    IN  [token_id |-> token, wallet_addresses |-> addresses,
         wallet_count |-> Cardinality(addresses),
         total_sol |-> SumSol(cluster_trades),
         first_buy_at |-> first_time,
         last_buy_at |-> last_time,
         window_seconds |-> (last_time - first_time) * 60]

_record_cluster_event(token, cluster_trades) ==
    LET addresses == {cluster_trades[i].wallet_id : i \in DOMAIN cluster_trades}
        block_times == {cluster_trades[i].block_time : i \in DOMAIN cluster_trades}
    IN  [token_id |-> token, wallet_addresses |-> addresses,
         wallet_count |-> Cardinality(addresses),
         total_sol |-> SumSol(cluster_trades),
         first_buy_at |-> SetMin(block_times),
         last_buy_at |-> SetMax(block_times),
         window_seconds |-> (SetMax(block_times) - SetMin(block_times)) * 60]

_check_cluster_buying(ws, trs, token, t) ==
    LET c == check_cluster_condition(trs, token, cluster_min_wallets,
                                     cluster_window_minutes, cluster_min_sol, t)
        cwallets == WalletsInOrder(c.trades, <<>>)
    IN  IF ~c.is_cluster THEN NotTriggered(CLUSTER_BUY)
        ELSE [triggered |-> TRUE, raised |-> FALSE, signal_type |-> CLUSTER_BUY,
              token |-> token,
              trades |-> [i \in DOMAIN c.trades |-> c.trades[i].tx_signature],
              wallets |-> cwallets,
              total_sol |-> SumSol(c.trades),
              max_supply_pct |-> MaxSupply(c.trades, 0),
              details |-> [wallet_count |-> Len(cwallets),
                           wallet_addresses |-> cwallets,
                           avg_win_rate |-> SumWinRate(ws, cwallets) \div Len(cwallets),
                           window_minutes |-> cluster_window_minutes],
              rug_checked |-> FALSE, rug_passed |-> TRUE, rug_risk_score |-> 0,
              rug_warnings |-> <<>>]

\* no guard on the market cap before the division
volume_guard_off(market_cap) == FALSE

volume_guard(market_cap) == market_cap <= 0

_check_volume_spike(toks, trs, token, t) ==
    IF age_minutes(toks[token], t) > new_token_max_age_minutes
    THEN NotTriggered(VOLUME_SPIKE)
    ELSE
    LET recent_trades == SelectSeq(trs, LAMBDA x :
                             /\ x.token_id = token
                             /\ x.trade_type = "BUY"
                             /\ x.block_time >= t - volume_window_minutes)
        volume_5m == SumSol(recent_trades)
        market_cap == IF Truthy(toks[token].market_cap_sol)
                      THEN toks[token].market_cap_sol ELSE 0
    IN  IF volume_guard(market_cap) THEN NotTriggered(VOLUME_SPIKE)
        ELSE IF market_cap = 0 THEN Raised(VOLUME_SPIKE)
        ELSE [triggered |-> volume_5m * 100 >= volume_spike_threshold * market_cap,
              raised |-> FALSE, signal_type |-> VOLUME_SPIKE, token |-> token,
              trades |-> [i \in DOMAIN recent_trades |-> recent_trades[i].tx_signature],
              wallets |-> <<>>, total_sol |-> volume_5m, max_supply_pct |-> 0,
              details |-> [volume_5m_sol |-> volume_5m, market_cap_sol |-> market_cap,
                           token_age_mins |-> age_minutes(toks[token], t)],
              rug_checked |-> FALSE, rug_passed |-> TRUE, rug_risk_score |-> 0,
              rug_warnings |-> <<>>]

Triggered(sig) == IF sig.triggered THEN <<sig>> ELSE <<>>

\* every result appended, triggered or not
collect_signals_all(hc, cl, vs) == <<hc, cl, vs>>

\* signals.append(...) for each of the three checks, in the order of the code
collect_signals(hc, cl, vs) == Triggered(hc) \o Triggered(cl) \o Triggered(vs)

\* The whole of process_buy_event on the stores (ws, toks, trs, cls) at time t.
process_buy_event(ws, toks, trs, cls, t, ev) ==
    IF get_by_address(ws, ev.wallet_address) = <<>>
    THEN [wallets |-> ws, tokens |-> toks, trades |-> trs, clusters |-> cls,
          signals |-> <<>>, raised |-> FALSE, known |-> FALSE, dup |-> FALSE,
          supply_pct |-> 0]
    ELSE
    LET wallet == ev.wallet_address
        toks1 == _get_or_create_token(toks, ev.token_ca, ev.market_cap,
                                      ev.total_supply, t)
        supply_pct == supply_percentage(ev.token_amount, ev.total_supply)
        dup == existing_trade(trs, ev.tx_signature) # <<>>
        trs1 == _record_trade(trs, wallet, ev.token_ca, ev.sol_amount,
                              ev.token_amount, supply_pct, ev.tx_signature,
                              ev.block_time, ev.market_cap)
        trade == existing_trade(trs1, ev.tx_signature)[1]
        ws1 == IF trs1 = trs THEN ws
               ELSE [ws EXCEPT ![wallet].last_activity = ev.block_time]
        hc == _check_high_conviction(wallet, trade, ev.token_ca, supply_pct,
                                     ev.sol_amount)
        cl == _check_cluster_buying(ws1, trs1, ev.token_ca, t)
        cls1 == IF cl.triggered
                THEN Append(cls, _record_cluster_event(ev.token_ca,
                        check_cluster_condition(trs1, ev.token_ca,
                            cluster_min_wallets, cluster_window_minutes,
                            cluster_min_sol, t).trades))
                ELSE cls
        vs == IF age_minutes(toks1[ev.token_ca], t) <= new_token_max_age_minutes
              THEN _check_volume_spike(toks1, trs1, ev.token_ca, t)
              ELSE NotTriggered(VOLUME_SPIKE)
        raised == vs.raised
    IN  [wallets |-> ws1, tokens |-> toks1, trades |-> trs1, clusters |-> cls1,
         signals |-> IF raised THEN <<>>
                     ELSE collect_signals(hc, cl, vs),
         raised |-> raised, known |-> TRUE, dup |-> dup,
         supply_pct |-> supply_pct]

\* The outcome of the metadata fetch and of the risk check of an enrichment:
\* "failed" when the call raised; the metadata gives the market cap and the
\* total supply (0.0 when the chain gave none), the risk check its verdict.
MetadataFailed == [status |-> "failed", market_cap_sol |-> 0, total_supply |-> 0]
Metadata(market_cap, total_supply) ==
    [status |-> "ok", market_cap_sol |-> market_cap, total_supply |-> total_supply]
RugCheckFailed == [status |-> "failed", passed |-> TRUE, risk_score |-> 0, warnings |-> <<>>]
RugCheck(passed, risk_score, warnings) ==
    [status |-> "ok", passed |-> passed, risk_score |-> risk_score, warnings |-> warnings]

\* a failure that marks the signal as checked and not passed
enrichment_failed_closed(signal) ==
    [signal EXCEPT !.rug_checked = TRUE, !.rug_passed = FALSE]

\* the except branch: the failure is logged and the signal is left as it is
enrichment_failed(signal) == signal

\* enrich_and_validate_signal: the token store and the signal it returns; the
\* token's name, symbol and liquidity are not part of the model.
enrich_and_validate_signal(toks, signal, metadata, rug_result) ==
    IF ~signal.triggered \/ signal.token = "" THEN [tokens |-> toks, signal |-> signal]
    ELSE IF metadata.status = "failed"
    THEN [tokens |-> toks, signal |-> enrichment_failed(signal)]
    ELSE
    LET toks1 == [toks EXCEPT
                    ![signal.token].market_cap_sol =
                        IF metadata.market_cap_sol > 0 THEN metadata.market_cap_sol ELSE @,
                    ![signal.token].total_supply =
                        IF metadata.total_supply > 0 THEN metadata.total_supply ELSE @]
    IN  IF rug_result.status = "failed"
        THEN [tokens |-> toks1, signal |-> enrichment_failed(signal)]
        ELSE [tokens |-> toks1,
              signal |-> [signal EXCEPT !.rug_checked = TRUE,
                                        !.rug_passed = rug_result.passed,
                                        !.rug_risk_score = rug_result.risk_score,
                                        !.rug_warnings = rug_result.warnings]]

\* an alert layer that suppresses nothing
rug_suppressed_never(signal, skip_rug_failed) == FALSE

rug_suppressed(signal, skip_rug_failed) ==
    skip_rug_failed /\ signal.rug_checked /\ ~signal.rug_passed

\* The Alert row of a signal, as the column defaults complete it;
\* trigger_wallets is the 'wallets' list of its trigger_data.
alert_snapshot(ws, signal, t) ==
    [token_id |-> signal.token, alert_type |-> signal.signal_type,
     total_sol_volume |-> signal.total_sol,
     wallet_count |-> Len(signal.wallets),
     avg_win_rate |-> IF signal.signal_type = CLUSTER_BUY /\ Truthy(signal.details.avg_win_rate)
                      THEN signal.details.avg_win_rate
                      ELSE IF signal.wallets # <<>>
                           THEN ws[signal.wallets[1]].win_rate ELSE 0,
     max_supply_pct |-> signal.max_supply_pct,
     rug_check |-> IF signal.rug_checked
                   THEN <<[passed |-> signal.rug_passed,
                           risk_score |-> signal.rug_risk_score,
                           warnings |-> signal.rug_warnings]>>
                   ELSE <<>>,
     trigger_wallets |-> [i \in DOMAIN signal.wallets |->
                            [address |-> signal.wallets[i],
                             win_rate |-> ws[signal.wallets[i]].win_rate,
                             conviction_score |-> ws[signal.wallets[i]].conviction_score]],
     is_sent |-> FALSE, sent_at |-> None, created_at |-> t,
     outcome_pnl |-> <<>>, outcome_checked_at |-> None]

\* create_alert: no row (None) for a suppressed signal, else the row it adds.
create_alert(ws, signal, skip_rug_failed, t) ==
    IF rug_suppressed(signal, skip_rug_failed) THEN <<>>
    ELSE <<alert_snapshot(ws, signal, t)>>

\* a mark that leaves sent_at as it is
mark_alert_sent_unstamped(als, k, t) == [als EXCEPT ![k].is_sent = TRUE]

mark_alert_sent(als, k, t) == [als EXCEPT ![k].is_sent = TRUE, ![k].sent_at = t]

\* ---------------------------------------------------------------- telegram_bot.py
\* send_alert returns None whatever happens; what became of the message is
\* "uninitialised" when the bot has no app yet, else the answer of
\* send_message: "delivered", or "failed" when it raised (logged only).
send_alert(b, answer) == IF b # "started" THEN "uninitialised" ELSE answer

\* ---------------------------------------------------------------- helius_handler.py
\* A transaction of a webhook payload: native_out is the sum of the fee
\* payer's native transfers (lamports / 1e9), token_in the sum of the token
\* transfers to the fee payer, mint the last such mint ("" when there is none).
_parse_transaction(tx, t) ==
    IF tx.type # "SWAP" THEN <<>>
    ELSE IF ~(tx.native_out > 0 /\ tx.token_in > 0 /\ tx.mint # "") THEN <<>>
    ELSE <<[wallet_address |-> tx.feePayer, token_ca |-> tx.mint,
            sol_amount |-> tx.native_out, token_amount |-> tx.token_in,
            tx_signature |-> tx.signature,
            block_time |-> IF tx.timestamp # None THEN tx.timestamp ELSE t,
            market_cap |-> None, total_supply |-> None]>>

\* an alert for the first signal only
create_alerts_first(ws, signals, t) ==
    IF signals = <<>> THEN <<>> ELSE create_alert(ws, Head(signals), TRUE, t)

\* The loop over the signals of one transaction: alert.id of a suppressed
\* signal (None) raises, which ends the handling of the transaction.
RECURSIVE create_alerts(_, _, _)
create_alerts(ws, signals, t) ==
    IF signals = <<>> THEN <<>>
    ELSE IF ~Head(signals).triggered THEN create_alerts(ws, Tail(signals), t)
    ELSE IF create_alert(ws, Head(signals), TRUE, t) = <<>> THEN <<>>
    ELSE create_alert(ws, Head(signals), TRUE, t)
         \o create_alerts(ws, Tail(signals), t)

\* The outcome r of process_buy_event with an alert for each of its signals.
with_alerts(r, als, t) ==
    [wallets |-> r.wallets, tokens |-> r.tokens, trades |-> r.trades,
     clusters |-> r.clusters,
     alerts |-> als \o create_alerts(r.wallets, r.signals, t),
     signals |-> r.signals, raised |-> r.raised, known |-> r.known,
     dup |-> r.dup, supply_pct |-> r.supply_pct, called |-> TRUE]

\* a handler that completes the parsed buy with the market cap and the
\* total supply stored for the token
handle_webhook_with_stored_supply(ws, cache, toks, trs, cls, als, t, tx) ==
    LET parsed == _parse_transaction(tx, t)
        skip == [wallets |-> ws, tokens |-> toks, trades |-> trs,
                 clusters |-> cls, alerts |-> als, signals |-> <<>>,
                 raised |-> FALSE, known |-> FALSE, dup |-> FALSE,
                 supply_pct |-> 0, called |-> FALSE]
    IN  IF parsed = <<>> THEN skip
        ELSE IF parsed[1].wallet_address \notin cache THEN skip
        ELSE with_alerts(
               process_buy_event(ws, toks, trs, cls, t,
                  IF parsed[1].token_ca \in DOMAIN toks
                  THEN [parsed[1] EXCEPT
                          !.market_cap = toks[parsed[1].token_ca].market_cap_sol,
                          !.total_supply = toks[parsed[1].token_ca].total_supply]
                  ELSE parsed[1]),
               als, t)

\* handle_webhook on a payload that is one transaction.
handle_webhook(ws, cache, toks, trs, cls, als, t, tx) ==
    LET parsed == _parse_transaction(tx, t)
        skip == [wallets |-> ws, tokens |-> toks, trades |-> trs,
                 clusters |-> cls, alerts |-> als, signals |-> <<>>,
                 raised |-> FALSE, known |-> FALSE, dup |-> FALSE,
                 supply_pct |-> 0, called |-> FALSE]
    IN  IF parsed = <<>> THEN skip
        ELSE IF parsed[1].wallet_address \notin cache THEN skip
        ELSE with_alerts(process_buy_event(ws, toks, trs, cls, t, parsed[1]),
                         als, t)

\* _parse_transaction raises on a swap whose native transfer from the fee
\* payer has a null amount (None / 1e9)
parse_raises(tx) == tx.type = "SWAP" /\ tx.native_out = None

\* a loop that a failure ends: nothing is handled after it
after_failure_none(rest) == << >>

\* except ...: continue: the transactions after the failed one are handled
after_failure(rest) == rest

\* The entries appended to the returned list for the alerts ids of one
\* transaction.
alert_entries(als, ids, token) ==
    [i \in DOMAIN ids |->
        [alert_id |-> ids[i], type |-> als[ids[i]].alert_type, token |-> token]]

\* One turn of the loop of handle_webhook over the transactions of a
\* payload: acc holds the stores, the returned list and, for each
\* transaction handled so far, whether it raised and the signals it
\* gave.  fails: the call of process_buy_event raises before its first write
\* (the wallet query fails).
payload_turn(acc, cache, t, tx, fails) ==
    LET reaches == /\ ~parse_raises(tx)
                   /\ _parse_transaction(tx, t) # <<>>
                   /\ _parse_transaction(tx, t)[1].wallet_address \in cache
        r == handle_webhook(acc.wallets, cache, acc.tokens, acc.trades,
                            acc.clusters, acc.alerts, t, tx)
        ids == [i \in 1..(Len(r.alerts) - Len(acc.alerts)) |-> Len(acc.alerts) + i]
    IN  IF parse_raises(tx) \/ (reaches /\ fails)
        THEN [acc EXCEPT !.per_tx = Append(@, [raised |-> TRUE, called |-> FALSE,
                                               signals |-> << >>])]
        ELSE [wallets |-> r.wallets, tokens |-> r.tokens, trades |-> r.trades,
              clusters |-> r.clusters, alerts |-> r.alerts,
              returned |-> acc.returned \o alert_entries(r.alerts, ids, tx.mint),
              per_tx |-> Append(acc.per_tx,
                                [raised |-> r.raised
                                              \/ Len(ids) < Len(r.signals),
                                 called |-> r.called,
                                 signals |-> [i \in DOMAIN r.signals |->
                                                r.signals[i].signal_type]])]

\* handle_webhook on a payload that is a list of transactions, the
\* processing of those at the positions failing raising
RECURSIVE handle_webhook_payload(_, _, _, _, _, _)
handle_webhook_payload(acc, cache, t, payload, failing, i) ==
    IF i > Len(payload) THEN acc
    ELSE CHOOSE after \in
           {IF a.per_tx[i].raised
            THEN handle_webhook_payload(a, cache, t,
                    SubSeq(payload, 1, i) \o after_failure(SubSeq(payload, i + 1, Len(payload))),
                    failing, i + 1)
            ELSE handle_webhook_payload(a, cache, t, payload, failing, i + 1) :
              a \in {payload_turn(acc, cache, t, payload[i], i \in failing)}} : TRUE

\* ---------------------------------------------------------------- outcome_tracker.py
PENDING == "pending"
WINNER == "winner"
LOSER == "loser"
RUGGED == "rugged"

WIN_THRESHOLD_PCT == 20
LOSS_THRESHOLD_PCT == -30
RUG_THRESHOLD_PCT == -80
\* an alert younger than this is PENDING, and is not selected for a check
min_age_minutes == 30
\* timedelta(hours=4), in minutes
recheck_minutes == 240
batch_limit == 50
\* the trades of the token within a minute of the alert give its price
trigger_window_minutes == 1

\* The answer of the metadata service to an outcome check: it raised, or it
\* gave the current price and the total supply (0.0 when it has none).
QuoteFailed == [status |-> "failed", price_usd |-> 0, total_supply |-> 0]
Quote(price_usd, total_supply) ==
    [status |-> "ok", price_usd |-> price_usd, total_supply |-> total_supply]

\* the Trade rows of the alert's token whose block_time is within a minute
\* of the alert's creation
trigger_trades(trs, alert) ==
    {i \in DOMAIN trs :
        /\ trs[i].token_id = alert.token_id
        /\ trs[i].block_time >= alert.created_at - trigger_window_minutes
        /\ trs[i].block_time <= alert.created_at + trigger_window_minutes}

\* trigger_trades[0] of a query without ORDER BY: any of the rows, 0 for none
first_trigger_trades(trs, alert) ==
    IF trigger_trades(trs, alert) = {} THEN {0} ELSE trigger_trades(trs, alert)

price_at_alert(trs, j, metadata) ==
    IF j # 0 /\ Truthy(trs[j].mcap_at_trade)
    THEN trs[j].mcap_at_trade
           \div (IF metadata.total_supply # 0 THEN metadata.total_supply ELSE 1)
    ELSE metadata.price_usd

\* ((current - at_alert) / at_alert) * 100; the prices drawn make it exact
return_pct(current_price, at_alert) ==
    IF at_alert > 0 THEN ((current_price - at_alert) * 100) \div at_alert ELSE 0

\* a classification that tests the loss threshold before the rug threshold
outcome_status_loss_first(alert_age_mins, ret) ==
    IF alert_age_mins < min_age_minutes THEN PENDING
    ELSE IF ret <= LOSS_THRESHOLD_PCT THEN LOSER
    ELSE IF ret <= RUG_THRESHOLD_PCT THEN RUGGED
    ELSE IF ret >= WIN_THRESHOLD_PCT THEN WINNER
    ELSE PENDING

outcome_status(alert_age_mins, ret) ==
    IF alert_age_mins < min_age_minutes THEN PENDING
    ELSE IF ret <= RUG_THRESHOLD_PCT THEN RUGGED
    ELSE IF ret >= WIN_THRESHOLD_PCT THEN WINNER
    ELSE IF ret <= LOSS_THRESHOLD_PCT THEN LOSER
    ELSE PENDING

\* a flag that follows the status of the last check
flag_rugged_following(toks, token, status) ==
    [toks EXCEPT ![token].is_rugged = (status = RUGGED)]

\* a check that leaves the flag alone
flag_rugged_never(toks, token, status) == toks

flag_rugged(toks, token, status) ==
    IF status = RUGGED THEN [toks EXCEPT ![token].is_rugged = TRUE] ELSE toks

\* a recording that leaves the time of the check unset
record_outcome_pnl_only(als, k, status, ret, t) ==
    [als EXCEPT ![k].outcome_pnl = <<ret>>]

record_outcome(als, k, status, ret, t) ==
    [als EXCEPT ![k].outcome_pnl = <<ret>>, ![k].outcome_checked_at = t]

\* check_alert_outcome of the alert k, with the answer of the metadata
\* service and the row j the trade query gave first: the stores after it
\* and the AlertOutcome it returns (none when it raised).
check_alert_outcome(toks, als, trs, k, metadata, j, t) ==
    IF metadata.status = "failed"
    THEN [tokens |-> toks, alerts |-> als, outcome |-> <<>>]
    ELSE
    LET alert_age_mins == t - als[k].created_at
        at_alert == price_at_alert(trs, j, metadata)
        ret == return_pct(metadata.price_usd, at_alert)
        status == outcome_status(alert_age_mins, ret)
    IN  [tokens |-> flag_rugged(toks, als[k].token_id, status),
         alerts |-> record_outcome(als, k, status, ret, t),
         outcome |-> <<[alert_id |-> k, token_ca |-> als[k].token_id,
                        status |-> status, price_at_alert |-> at_alert,
                        price_current |-> metadata.price_usd,
                        return_pct |-> ret, alert_age_mins |-> alert_age_mins]>>]

\* a selection that takes every alert, whatever its age and its last check
needs_check_all(alert, t) == TRUE

\* the filter of the query of check_pending_alerts
needs_check(alert, t) ==
    /\ alert.created_at <= t - min_age_minutes
    /\ \/ alert.outcome_checked_at = None
       \/ alert.outcome_checked_at <= t - recheck_minutes

\* the ids of the Alert table, in its order
ids_in_order(als) == [k \in 1..Len(als) |-> k]

\* the query: the alerts to check, in the order of the table, cut at the limit
select_pending(als, t) ==
    LET all == SelectSeq(ids_in_order(als), LAMBDA k : needs_check(als[k], t))
    IN  IF Len(all) <= batch_limit THEN all ELSE SubSeq(all, 1, batch_limit)

\* One turn of the loop of check_pending_alerts: the check of the alert k
\* appends its outcome to acc; a check that raises is logged and skipped.
check_one(toks, als, trs, k, answer, t, acc) ==
    CHOOSE after \in
      {[tokens |-> r.tokens, alerts |-> r.alerts, outcomes |-> acc \o r.outcome] :
         r \in {check_alert_outcome(toks, als, trs, k, answer.metadata,
                                    answer.first, t)}} : TRUE

\* The loop over the selected alerts, in their order; env gives, for each,
\* the answer of the metadata service and the first row of the trade query.
\* The turns of the first half are followed by those of the second.
RECURSIVE check_each(_, _, _, _, _, _, _)
check_each(toks, als, trs, selected, env, t, acc) ==
    IF selected = <<>>
    THEN [tokens |-> toks, alerts |-> als, outcomes |-> acc]
    ELSE IF Len(selected) = 1
    THEN check_one(toks, als, trs, selected[1], env[1], t, acc)
    ELSE CHOOSE after \in
           {check_each(r.tokens, r.alerts, trs,
                       SubSeq(selected, Len(selected) \div 2 + 1, Len(selected)),
                       SubSeq(env, Len(selected) \div 2 + 1, Len(selected)),
                       t, r.outcomes) :
              r \in {check_each(toks, als, trs,
                                SubSeq(selected, 1, Len(selected) \div 2),
                                SubSeq(env, 1, Len(selected) \div 2), t, acc)}} :
           TRUE

check_pending_alerts(toks, als, trs, selected, env, t) ==
    check_each(toks, als, trs, selected, env, t, <<>>)


\* get_performance_stats over the last days days at time t: the alerts of
\* the window that have an outcome_pnl, and the three categories made of them
day_minutes == 1440
stats_alerts(als, days, t) ==
    {k \in DOMAIN als : /\ als[k].created_at >= t - days * day_minutes
                        /\ als[k].outcome_pnl # << >>}
stats_winners(als, days, t) ==
    {k \in stats_alerts(als, days, t) : als[k].outcome_pnl[1] >= WIN_THRESHOLD_PCT}
stats_losers(als, days, t) ==
    {k \in stats_alerts(als, days, t) : als[k].outcome_pnl[1] <= LOSS_THRESHOLD_PCT}
stats_rugged(als, days, t) ==
    {k \in stats_alerts(als, days, t) : als[k].outcome_pnl[1] <= RUG_THRESHOLD_PCT}
stats_pending(als, days, t) ==
    {k \in DOMAIN als : /\ als[k].created_at >= t - days * day_minutes
                        /\ als[k].outcome_pnl = << >>}

\* win_rate_for_type, in whole percent rounded down
win_rate_for_type(als, checked, alert_type) ==
    LET type_alerts == {k \in checked : als[k].alert_type = alert_type}
        type_winners == {k \in type_alerts : als[k].outcome_pnl[1] >= WIN_THRESHOLD_PCT}
        type_resolved ==
            Cardinality({k \in type_alerts : als[k].outcome_pnl[1] <= LOSS_THRESHOLD_PCT})
            + Cardinality(type_winners)
    IN  IF type_resolved > 0
        THEN (Cardinality(type_winners) * 100) \div type_resolved ELSE 0

\* the PerformanceStats returned; rates and averages are in whole percent,
\* rounded down
get_performance_stats(als, days, t) ==
    LET checked == stats_alerts(als, days, t)
        winners == stats_winners(als, days, t)
        losers == stats_losers(als, days, t)
        rugged == stats_rugged(als, days, t)
        resolved == Cardinality(winners) + Cardinality(losers)
        pnl == [k \in checked |-> als[k].outcome_pnl[1]]
        pending_count == Cardinality(stats_pending(als, days, t))
    IN  IF checked = {}
        THEN [total_alerts |-> 0, winners |-> 0, losers |-> 0, rugged |-> 0,
              pending |-> 0, win_rate |-> 0, avg_return_pct |-> 0,
              avg_loss_pct |-> 0, best_return_pct |-> 0, worst_loss_pct |-> 0,
              high_conviction_win_rate |-> 0, cluster_buy_win_rate |-> 0,
              volume_spike_win_rate |-> 0]
        ELSE [total_alerts |-> Cardinality(checked) + pending_count,
              winners |-> Cardinality(winners),
              losers |-> Cardinality(losers),
              rugged |-> Cardinality(rugged),
              pending |-> pending_count,
              win_rate |-> IF resolved > 0
                           THEN (Cardinality(winners) * 100) \div resolved ELSE 0,
              avg_return_pct |-> IF winners # {}
                                 THEN SumOver(pnl, winners) \div Cardinality(winners)
                                 ELSE 0,
              avg_loss_pct |-> IF losers # {}
                               THEN SumOver(pnl, losers) \div Cardinality(losers)
                               ELSE 0,
              best_return_pct |-> SetMax({pnl[k] : k \in checked}),
              worst_loss_pct |-> SetMin({pnl[k] : k \in checked}),
              high_conviction_win_rate |-> win_rate_for_type(als, checked, HIGH_CONVICTION),
              cluster_buy_win_rate |-> win_rate_for_type(als, checked, CLUSTER_BUY),
              volume_spike_win_rate |-> win_rate_for_type(als, checked, VOLUME_SPIKE)]

\* ---------------------------------------------------------------- conviction_calculator.py
\* Scores are in hundredths of a point.
WEIGHT_WIN_RATE == 3000
WEIGHT_CONSISTENCY == 2000
WEIGHT_FREQUENCY == 1500
WEIGHT_PNL == 1500
WEIGHT_EARLY_ENTRY == 1000
WEIGHT_RUG_AVOIDANCE == 1000
\* timedelta(days=7), in minutes
seven_days_minutes == 10080
\* a buy is an early entry up to this age of the token, in minutes
early_entry_minutes == 30
\* trades in 7 days for the full frequency score, and SOL (in tenths) of
\* total pnl for the full pnl score
full_frequency_trades == 10
full_pnl_sol == 1000

Min(a, b) == IF a <= b THEN a ELSE b
Max(a, b) == IF a >= b THEN a ELSE b

\* floor of the square root of x, for x up to 100 * 100
isqrt(x) == CHOOSE r \in 0..100 : r * r <= x /\ x < (r + 1) * (r + 1)

trades_of(trs, w) == {i \in DOMAIN trs : trs[i].wallet_id = w}

\* _calculate_consistency: 50 with fewer than 3 tokens or a mean pnl of 0,
\* else max(0, 100 - cv * 50) with cv = std_dev / |mean| of the pnl per
\* token; cv * 50 is rounded down to a whole point.
_calculate_consistency(trs, w) ==
    LET mine == trades_of(trs, w)
        traded == {trs[i].token_id : i \in mine}
        pnl == [c \in traded |->
                  SumOver([i \in mine |-> IF trs[i].trade_type = "BUY"
                                          THEN 0 ELSE trs[i].sol_amount],
                          {i \in mine : trs[i].token_id = c})
                  - SumOver([i \in mine |-> IF trs[i].trade_type = "BUY"
                                            THEN trs[i].sol_amount ELSE 0],
                            {i \in mine : trs[i].token_id = c})]
        n == Cardinality(traded)
        total == SumOver(pnl, traded)
        squares == SumOver([c \in traded |-> pnl[c] * pnl[c]], traded)
        spread == n * squares - total * total
    IN  IF n < 3 THEN 50
        ELSE IF total = 0 THEN 50
        ELSE IF 2500 * spread >= 10000 * total * total THEN 0
        ELSE 100 - isqrt((2500 * spread) \div (total * total))

\* _gather_metrics at time t: the values calculate_score reads
_gather_metrics(ws, toks, trs, w, t) ==
    LET all_trades == trades_of(trs, w)
        trades_7d == {i \in all_trades : trs[i].block_time >= t - seven_days_minutes}
        buy_trades == {i \in all_trades : trs[i].trade_type = "BUY"}
        early_entries ==
            {i \in buy_trades :
                /\ toks[trs[i].token_id].launched_at # None
                /\ trs[i].block_time - toks[trs[i].token_id].launched_at
                     <= early_entry_minutes}
        tokens_traded == {trs[i].token_id : i \in buy_trades}
        \* count() over the Trade rows, of any wallet, on a token traded
        \* that is flagged
        rugged_tokens ==
            Cardinality({i \in DOMAIN trs : /\ trs[i].token_id \in tokens_traded
                                            /\ toks[trs[i].token_id].is_rugged})
    IN  [win_rate |-> ws[w].win_rate,
         trades_7d |-> Cardinality(trades_7d),
         pnl_total_sol |-> ws[w].pnl_total_sol,
         buys |-> Cardinality(buy_trades),
         early_entries |-> Cardinality(early_entries),
         tokens_traded |-> Cardinality(tokens_traded),
         rugged_tokens |-> rugged_tokens,
         consistency_score |-> _calculate_consistency(trs, w)]

_score_win_rate(win_rate) ==
    IF win_rate <= 50 THEN 0 ELSE ((win_rate - 50) * WEIGHT_WIN_RATE) \div 50

_score_consistency(metrics) ==
    (metrics.consistency_score * WEIGHT_CONSISTENCY) \div 100

_score_frequency(trades_7d) ==
    (Min(full_frequency_trades, trades_7d) * WEIGHT_FREQUENCY) \div full_frequency_trades

_score_pnl(pnl_total) ==
    IF pnl_total <= 0 THEN 0
    ELSE (Min(full_pnl_sol, pnl_total) * WEIGHT_PNL) \div full_pnl_sol

\* early_rate = early_entries / buys * 100, 0 without buys; the score is
\* min(1, early_rate / 50) of the weight
_score_early_entry(metrics) ==
    IF metrics.buys = 0 THEN 0
    ELSE (Min(metrics.buys, 2 * metrics.early_entries) * WEIGHT_EARLY_ENTRY)
           \div metrics.buys

\* rug_avoidance of _gather_metrics, in whole percent rounded down: 100
\* without tokens, else (tokens - rugged) / tokens * 100
rug_avoidance(metrics) ==
    IF metrics.tokens_traded = 0 THEN 100
    ELSE ((metrics.tokens_traded - metrics.rugged_tokens) * 100)
           \div metrics.tokens_traded

\* avoidance = (tokens - rugged) / tokens * 100, 100 without tokens; the
\* score is 0 up to 50 and (avoidance - 50) / 50 of the weight over it
_score_rug_avoidance(metrics) ==
    IF metrics.tokens_traded = 0 THEN WEIGHT_RUG_AVOIDANCE
    ELSE IF 2 * (metrics.tokens_traded - metrics.rugged_tokens) <= metrics.tokens_traded
    THEN 0
    ELSE ((metrics.tokens_traded - metrics.rugged_tokens) * 2 * WEIGHT_RUG_AVOIDANCE)
           \div metrics.tokens_traded - WEIGHT_RUG_AVOIDANCE

\* a total that is returned as it is
clamp_total_off(total_score) == total_score

\* min(100, max(0, total_score))
clamp_total(total_score) == Min(10000, Max(0, total_score))

\* calculate_score: the six components, their sum and the score returned
calculate_score(ws, toks, trs, w, t) ==
    LET metrics == _gather_metrics(ws, toks, trs, w, t)
        win_rate_score == _score_win_rate(metrics.win_rate)
        consistency_score == _score_consistency(metrics)
        frequency_score == _score_frequency(metrics.trades_7d)
        pnl_score == _score_pnl(metrics.pnl_total_sol)
        early_entry_score == _score_early_entry(metrics)
        rug_avoidance_score == _score_rug_avoidance(metrics)
        total_score == win_rate_score + consistency_score + frequency_score
                       + pnl_score + early_entry_score + rug_avoidance_score
    IN  [wallet |-> w, metrics |-> metrics,
         win_rate_score |-> win_rate_score,
         consistency_score |-> consistency_score,
         frequency_score |-> frequency_score,
         pnl_score |-> pnl_score,
         early_entry_score |-> early_entry_score,
         rug_avoidance_score |-> rug_avoidance_score,
         total_score |-> total_score,
         score |-> clamp_total(total_score)]

\* a selection of every wallet, active or not
scored_wallets_all(ws) == DOMAIN ws

\* the query of update_all_scores
scored_wallets(ws) == {a \in DOMAIN ws : ws[a].is_active}

\* updated += 1 after each score assigned
count_updated(selected, failing) == Cardinality(selected \ failing)

\* update_all_scores at time t; failing are the wallets for which
\* calculate_score raises, which are logged and skipped.  The stores after
\* the commit and the count returned.
update_all_scores(ws, toks, trs, failing, t) ==
    LET selected == scored_wallets(ws)
    IN  [wallets |-> [a \in DOMAIN ws |->
                        IF a \in selected \ failing
                        THEN [ws[a] EXCEPT !.conviction_score =
                                 calculate_score(ws, toks, trs, a, t).score]
                        ELSE ws[a]],
         updated |-> count_updated(selected, failing)]

\* ---------------------------------------------------------------- backtester.py
\* Prices are in units of 1 / (token.total_supply or 1), so the price of a
\* market cap is the market cap itself; pnl_pct is in whole percent (the
\* market caps drawn make it exact) and pnl_sol in thousandths of a SOL.
FIXED_TIME == "fixed_time"
TAKE_PROFIT == "take_profit"
STOP_LOSS == "stop_loss"
exit_window_minutes == 5
fallback_exit_minutes == 60

RECURSIVE SumField(_, _)
SumField(s, f) == IF s = <<>> THEN 0 ELSE Head(s)[f] + SumField(Tail(s), f)

pnl_pct_of(exit_price, entry_price) ==
    IF entry_price > 0 THEN ((exit_price - entry_price) * 100) \div entry_price ELSE 0

\* _simulate_exit: draw gives the values of random.uniform(0.1, 0.5) and of
\* random.gauss(1.2, 0.5), in percent of the entry price
_simulate_exit(toks, trs, token, entry_time, entry_price, config, draw) ==
    IF config.exit_strategy = FIXED_TIME
    THEN LET exit_time == entry_time + config.exit_time_minutes
             exit_trades == {i \in DOMAIN trs :
                               /\ trs[i].token_id = token
                               /\ trs[i].block_time >= exit_time - exit_window_minutes
                               /\ trs[i].block_time <= exit_time + exit_window_minutes}
             mcaps == [i \in exit_trades |->
                         IF Truthy(trs[i].mcap_at_trade) THEN trs[i].mcap_at_trade ELSE 0]
             avg_mcap == IF exit_trades = {} THEN 0
                         ELSE SumOver(mcaps, exit_trades) \div Cardinality(exit_trades)
             exit_price ==
                 IF exit_trades # {}
                 THEN IF avg_mcap > 0 THEN avg_mcap ELSE entry_price
                 ELSE IF toks[token].is_rugged
                 THEN (entry_price * draw.uniform) \div 100
                 ELSE (entry_price * Max(10, draw.gauss)) \div 100
         IN  [exit_time |-> exit_time, exit_price |-> exit_price,
              exit_reason |-> "fixed_time"]
    ELSE IF config.exit_strategy = TAKE_PROFIT
    THEN LET target_price == (entry_price * (100 + config.take_profit_pct)) \div 100
             later == {i \in DOMAIN trs :
                         trs[i].token_id = token /\ trs[i].block_time > entry_time}
             best == {i \in later :
                        \A j \in later : trs[j].mcap_at_trade <= trs[i].mcap_at_trade}
         IN  IF /\ later # {}
                /\ \E i \in best : Truthy(trs[i].mcap_at_trade)
                                   /\ trs[i].mcap_at_trade >= target_price
             THEN [exit_time |-> trs[CHOOSE i \in best : TRUE].block_time,
                   exit_price |-> target_price, exit_reason |-> "take_profit"]
             ELSE [exit_time |-> entry_time + config.exit_time_minutes,
                   exit_price |-> (entry_price * 9) \div 10,
                   exit_reason |-> "timeout"]
    ELSE [exit_time |-> entry_time + fallback_exit_minutes,
          exit_price |-> entry_price, exit_reason |-> "unknown"]

\* _simulate_trade of the alert k: no trade (None) or the BacktestTrade
\* a filter that lets an alert without wallets through
below_min_win_rate_of_listed(trigger, config) ==
    /\ trigger # <<>>
    /\ SumField(trigger, "win_rate") < config.min_wallet_win_rate * Len(trigger)

\* the wallet win rate filter: avg_wr, the mean win_rate of the wallets of
\* the trigger data and 0 without wallets, is under min_wallet_win_rate
below_min_win_rate(trigger, config) ==
    \/ SumField(trigger, "win_rate") < config.min_wallet_win_rate * Len(trigger)
    \/ (trigger = <<>> /\ 0 < config.min_wallet_win_rate)

_simulate_trade(toks, als, trs, k, config, draw) ==
    LET alert == als[k]
        token == toks[alert.token_id]
        trigger == alert.trigger_wallets
        entry_mcap == IF Truthy(token.market_cap_sol) THEN token.market_cap_sol ELSE 0
    IN  IF config.skip_rugged_tokens /\ token.is_rugged THEN <<>>
        ELSE IF below_min_win_rate(trigger, config) THEN <<>>
        ELSE IF entry_mcap <= 0 THEN <<>>
        ELSE LET x == _simulate_exit(toks, trs, alert.token_id, alert.created_at,
                                     entry_mcap, config, draw)
                 pnl_pct == pnl_pct_of(x.exit_price, entry_mcap)
             IN  <<[token_address |-> alert.token_id,
                    signal_type |-> alert.alert_type,
                    entry_time |-> alert.created_at, entry_price |-> entry_mcap,
                    entry_mcap |-> entry_mcap, exit_time |-> x.exit_time,
                    exit_price |-> x.exit_price, exit_reason |-> x.exit_reason,
                    position_size_sol |-> config.position_size_sol,
                    pnl_sol |-> config.position_size_sol * pnl_pct,
                    pnl_pct |-> pnl_pct,
                    wallet_count |-> alert.wallet_count]>>

\* the value float('inf') of profit_factor, and a finite ratio
Infinity == [inf |-> TRUE, num |-> 0, den |-> 1]
Ratio(num, den) == [inf |-> FALSE, num |-> num, den |-> den]

\* a profit factor that is 0 when nothing was lost
profit_factor_zero(gross_profit, gross_loss) ==
    IF gross_loss > 0 THEN Ratio(gross_profit, gross_loss) ELSE Ratio(0, 1)

profit_factor(gross_profit, gross_loss) ==
    IF gross_loss > 0 THEN Ratio(gross_profit, gross_loss) ELSE Infinity

Abs(x) == IF x < 0 THEN 0 - x ELSE x

\* the BacktestResult before _calculate_stats
EmptyResult(config) ==
    [config |-> config, trades |-> << >>, total_trades |-> 0,
     winning_trades |-> 0, losing_trades |-> 0, total_pnl_sol |-> 0,
     total_pnl_pct |-> 0, profit_factor |-> Ratio(0, 1),
     stats_by_type |-> << >>]

\* stats_by_type: an entry for each signal type that has trades; win_rate
\* in whole percent and avg_pnl rounded down
stats_by_type(ts) ==
    [y \in {ts[i].signal_type : i \in DOMAIN ts} |->
        LET type_trades == SelectSeq(ts, LAMBDA t : t.signal_type = y)
        IN  [trades |-> Len(type_trades),
             win_rate |-> (Len(SelectSeq(type_trades, LAMBDA t : t.pnl_pct > 0)) * 100)
                            \div Len(type_trades),
             avg_pnl |-> SumField(type_trades, "pnl_pct") \div Len(type_trades),
             total_pnl |-> SumField(type_trades, "pnl_sol")]]

_calculate_stats(result) ==
    IF result.trades = << >> THEN result
    ELSE LET ts == result.trades
             won == SelectSeq(ts, LAMBDA t : t.pnl_pct > 0)
             lost == SelectSeq(ts, LAMBDA t : t.pnl_pct <= 0)
             gross_profit == SumField(SelectSeq(ts, LAMBDA t : t.pnl_sol > 0), "pnl_sol")
             gross_loss == Abs(SumField(SelectSeq(ts, LAMBDA t : t.pnl_sol < 0), "pnl_sol"))
         IN  [result EXCEPT
                !.total_trades = Len(ts),
                !.winning_trades = Len(won),
                !.losing_trades = Len(lost),
                !.total_pnl_sol = SumField(ts, "pnl_sol"),
                !.total_pnl_pct = SumField(ts, "pnl_pct"),
                !.profit_factor = profit_factor(gross_profit, gross_loss),
                !.stats_by_type = stats_by_type(ts)]

\* the alerts of the query of run_backtest, ordered by created_at
backtest_alerts(als, config) ==
    SelectSeq(ids_in_order(als),
              LAMBDA k : /\ als[k].created_at >= config.start_date
                         /\ als[k].created_at <= config.end_date
                         /\ als[k].alert_type \in config.signal_types)

RECURSIVE simulate_each(_, _, _, _, _, _)
simulate_each(toks, als, trs, ids, config, draws) ==
    IF ids = << >> THEN << >>
    ELSE _simulate_trade(toks, als, trs, Head(ids), config, draws[Head(ids)])
         \o simulate_each(toks, als, trs, Tail(ids), config, draws)

run_backtest(toks, als, trs, config, draws) ==
    _calculate_stats([EmptyResult(config) EXCEPT
                        !.trades = simulate_each(toks, als, trs,
                                                 backtest_alerts(als, config),
                                                 config, draws)])

\* a session in which the run stored, on each alert it traded, the pnl of
\* the trade as the alert's outcome
session_after_backtest_recording(db, result) ==
    [db EXCEPT !.alerts =
        [k \in DOMAIN db.alerts |->
            IF \E i \in DOMAIN result.trades :
                  result.trades[i].entry_time = db.alerts[k].created_at
            THEN [db.alerts[k] EXCEPT !.outcome_pnl = <<0>>]
            ELSE db.alerts[k]]]

\* the rows of the session the run was given, when it returns: it has added,
\* changed, deleted and committed nothing
session_after_backtest(db, result) == db

\* run_quick_backtest: the last `days` days, the defaults of BacktestConfig
quick_config(t, days) ==
    [start_date |-> t - days * 1440, end_date |-> t,
     signal_types |-> SignalTypes, min_wallet_win_rate |-> 65,
     position_size_sol |-> 10, exit_strategy |-> FIXED_TIME,
     exit_time_minutes |-> 60, take_profit_pct |-> 50,
     skip_rugged_tokens |-> TRUE]

\* ---------------------------------------------------------------- main.py
\* The loop of helius_webhook over the alert ids that handle_webhook returned:
\* every alert not yet sent is passed to send_alert and then marked sent.
RECURSIVE send_alerts(_, _, _, _, _, _)
send_alerts(b, als, snk, ids, answers, t) ==
    IF ids = <<>> THEN [alerts |-> als, sink |-> snk]
    ELSE IF Head(ids) \in DOMAIN als /\ ~als[Head(ids)].is_sent
    THEN send_alerts(b, mark_alert_sent(als, Head(ids), t),
                     Append(snk, [alert |-> Head(ids),
                                  outcome |-> send_alert(b, Head(answers))]),
                     Tail(ids), Tail(answers), t)
    ELSE send_alerts(b, als, snk, Tail(ids), Tail(answers), t)

\* helius_webhook on the outcome r of handle_webhook: ids are the alerts that
\* call created, sent when there are some and a bot exists.
helius_webhook(b, r, snk, ids, answers, t) ==
    IF ids # <<>> /\ b # "none"
    THEN send_alerts(b, r.alerts, snk, ids, answers, t)
    ELSE [alerts |-> r.alerts, sink |-> snk]

\* ---------------------------------------------------------------- state machine
NoEvent ==
    [wallet_address |-> "", token_ca |-> "", sol_amount |-> 0, token_amount |-> 0,
     tx_signature |-> 0, block_time |-> None, market_cap |-> None,
     total_supply |-> None]

SignalTypesOf(signals) == {signals[i].signal_type : i \in DOMAIN signals}

\* block times are drawn among the instants TP up to the present one
BlockTimes(TP, t) == {b \in TP : b <= t /\ t - b <= MaxDelay}

\* The buy events of wallets W on tokens T, of sol amounts S and token
\* amounts A, with token data M (pairs <<market_cap, total_supply>>) and
\* signatures G, at block times B.
BuyEvents(W, T, S, A, M, G, B) ==
    {[wallet_address |-> w, token_ca |-> c, sol_amount |-> s, token_amount |-> a,
      tx_signature |-> g, block_time |-> b, market_cap |-> m[1],
      total_supply |-> m[2]] :
        w \in W, c \in T, s \in S, a \in A, m \in M, g \in G, b \in B}

\* The swaps of fee payers W on mints T paying S for A, with signatures G and
\* timestamps B (None: not stamped).
Swaps(W, T, S, A, G, B) ==
    {[type |-> "SWAP", signature |-> g, timestamp |-> b, feePayer |-> w,
      native_out |-> s, token_in |-> a, mint |-> c] :
        w \in W, c \in T, s \in S, a \in A, g \in G, b \in B}

\* Transactions that are no buy: another type, and a swap paying nothing.
NoBuys ==
    {[type |-> "TRANSFER", signature |-> 1, timestamp |-> None,
      feePayer |-> "W1", native_out |-> 10, token_in |-> 5, mint |-> "T1"],
     [type |-> "SWAP", signature |-> 1, timestamp |-> None,
      feePayer |-> "W1", native_out |-> 0, token_in |-> 5, mint |-> "T1"]}

NoCall(op) ==
    [op |-> op, ev |-> NoEvent, at |-> now, called |-> FALSE, known |-> FALSE,
     dup |-> FALSE, repeat |-> FALSE, signals |-> <<>>, raised |-> FALSE,
     supply_pct |-> 0, newClusters |-> 0, newAlerts |-> 0]

\* The log of the last operation on signals, alerts and outcomes: n flips
\* at each of them, arg is the signal or the alert it was given; prev, in
\* the log of create_alert, is the operation before it, and was, in the log
\* of an outcome check, the statuses returned until then; scored, in the
\* log of a scoring, are the wallets it selected and scores what
\* calculate_score gave for each wallet it was called on; backtest, in the
\* log of a backtest, is the result it returned.
NoPrev == [op |-> "init", arg |-> 0, failure |-> "none", unenriched |-> FALSE]
Idle ==
    [op |-> "init", n |-> 0, at |-> 0, arg |-> 0, skip |-> FALSE,
     failure |-> "none", unenriched |-> FALSE, returned |-> <<>>,
     selected |-> <<>>, results |-> <<>>, failed |-> {}, prev |-> NoPrev,
     was |-> << >>, scored |-> {}, scores |-> << >>, backtest |-> << >>]

Op(op, arg) ==
    [Idle EXCEPT !.op = op, !.n = 1 - out.n, !.at = now, !.arg = arg]

\* The periodic tasks startup() creates, one of each: conviction_update_loop
\* and outcome_check_loop, both in their initial delay (60 and 120 seconds).
\* pc is where the loop's coroutine stands: "sleeping" in asyncio.sleep
\* until the minute wake, or "awaiting" the run it called. runs are the runs
\* of check_pending_alerts in progress, each with the alerts it selected
\* and has not yet checked (todo) and the outcomes it has collected.
conviction_initial_delay == 1
outcome_initial_delay == 2
conviction_update_interval == 360
outcome_check_interval == 30

LoopsAtStartup ==
    [conviction |-> [pc |-> "sleeping", wake |-> conviction_initial_delay],
     outcome |-> [pc |-> "sleeping", wake |-> outcome_initial_delay],
     runs |-> << >>]

\* The database of a first start: the tracked wallets and nothing else.
NewDatabase ==
    [wallets |-> [a \in StoredWallets |->
                    [is_active |-> TRUE,
                     win_rate |-> IF a = "W1" THEN 70 ELSE 80,
                     pnl_total_sol |-> 0, conviction_score |-> 0,
                     last_activity |-> None]],
     tokens |-> << >>, trades |-> << >>, clusters |-> << >>, alerts |-> << >>]


\* ------------------------------------------------------- webhook_security
\* RateLimiter.__init__: the limits and an empty dict of request lists. The
\* dict _requests is a function from the identifiers it has as keys to their
\* lists of timestamps.
RateLimiter(max_requests, window_seconds) ==
    [max_requests |-> max_requests, window_seconds |-> window_seconds,
     requests |-> << >>]

\* The global instance startup() takes.
get_rate_limiter == RateLimiter(100, 60)

\* time.time() at the minute t, in seconds.
time_time(t) == t * 60

\* The comprehension [ts for ts in requests if ts > window_start].
requests_after(requests, window_start) ==
    LET recent(ts) == ts > window_start IN SelectSeq(requests, recent)

\* The request list of identifier after the get-or-create and the cleaning.
cleaned_requests(rl, identifier, t) ==
    IF identifier \in DOMAIN rl.requests
    THEN requests_after(rl.requests[identifier], time_time(t) - rl.window_seconds)
    ELSE << >>

with_requests(rl, identifier, requests) ==
    [rl EXCEPT !.requests = [i \in DOMAIN rl.requests \cup {identifier} |->
                                IF i = identifier THEN requests ELSE rl.requests[i]]]

is_allowed_recording_rejected(rl, identifier, t) ==
    [limiter |-> with_requests(rl, identifier,
                     Append(cleaned_requests(rl, identifier, t), time_time(t))),
     allowed |-> Len(cleaned_requests(rl, identifier, t)) < rl.max_requests]

\* RateLimiter.is_allowed at the minute t: the limiter after the call and
\* what the call returned.
is_allowed(rl, identifier, t) ==
    IF Len(cleaned_requests(rl, identifier, t)) >= rl.max_requests
    THEN [limiter |-> with_requests(rl, identifier, cleaned_requests(rl, identifier, t)),
          allowed |-> FALSE]
    ELSE [limiter |-> with_requests(rl, identifier,
                          Append(cleaned_requests(rl, identifier, t), time_time(t))),
          allowed |-> TRUE]

\* RateLimiter.cleanup at the minute t: every list cleaned, the entries left
\* empty deleted.
cleanup(rl, t) ==
    [rl EXCEPT !.requests =
        [i \in {j \in DOMAIN rl.requests : cleaned_requests(rl, j, t) # << >>} |->
            cleaned_requests(rl, i, t)]]

\* The state after startup(): the stores as init_db finds them in the
\* database db, the webhook handler's cache loaded, and the bot created (its
\* start() scheduled, not yet run) when a bot token is configured.
StartupWith(token_configured, db, rl) ==
    /\ now = 0
    /\ wallets = db.wallets
    /\ tracked = get_wallet_addresses(wallets)
    /\ tokens = db.tokens
    /\ trades = db.trades
    /\ clusters = db.clusters
    /\ alerts = db.alerts
    /\ last = [NoCall("init") EXCEPT !.at = 0]
    /\ first = << >>
    /\ held = << >>
    /\ bot = IF token_configured THEN "created" ELSE "none"
    /\ sink = << >>
    /\ outcomes = << >>
    /\ out = Idle
    /\ loops = LoopsAtStartup
    /\ limiter = rl
    /\ calls = << >>

Startup(token_configured, db) ==
    StartupWith(token_configured, db, get_rate_limiter)

Init == Startup(TRUE, NewDatabase)

\* The signal types of the call that recorded each tx_signature.
FirstSignals(ev, r) ==
    IF r.known /\ ~r.dup
    THEN [g \in DOMAIN first \cup {ev.tx_signature} |->
            IF g = ev.tx_signature THEN SignalTypesOf(r.signals) ELSE first[g]]
    ELSE first

\* The log of one call of process_buy_event (made directly or by
\* handle_webhook): ev is the event it was given, r its outcome.
Logged(op, ev, r, nAlerts) ==
    [op |-> op, ev |-> ev, at |-> now, called |-> TRUE, known |-> r.known,
     dup |-> r.dup,
     repeat |-> r.known /\ last.called /\ last.known /\ last.ev = ev,
     signals |-> r.signals, raised |-> r.raised, supply_pct |-> r.supply_pct,
     newClusters |-> Len(r.clusters) - Len(clusters), newAlerts |-> nAlerts]

Tick(TP) ==
    /\ \E t \in TP : t > now /\ now' = t
    /\ UNCHANGED <<limiter, calls, loops, wallets, tracked, tokens, trades, clusters, alerts, last, first,
                   held, bot, sink, outcomes, out>>


\* One call of RateLimiter.is_allowed, as helius_webhook makes it with the
\* client's address. calls is the history of the calls: who called, at which
\* second, and what was returned.
IsAllowed(I) ==
    \E identifier \in I :
      \E r \in {is_allowed(limiter, identifier, now)} :
        /\ Len(calls) < MaxCalls
        /\ limiter' = r.limiter
        /\ calls' = Append(calls, [identifier |-> identifier, at |-> time_time(now),
                                   allowed |-> r.allowed])
        /\ out' = [Op("is_allowed", identifier) EXCEPT !.returned = <<r.allowed>>]
        /\ UNCHANGED <<now, loops, wallets, tracked, tokens, trades, clusters, alerts,
                       last, first, held, bot, sink, outcomes>>

\* One call of RateLimiter.cleanup.
Cleanup ==
    /\ limiter' = cleanup(limiter, now)
    /\ out' = Op("cleanup", None)
    /\ UNCHANGED <<now, calls, loops, wallets, tracked, tokens, trades, clusters,
                   alerts, last, first, held, bot, sink, outcomes>>

ProcessBuyEvent(E) ==
    \E ev \in E :
        \E r \in {process_buy_event(wallets, tokens, trades, clusters, now, ev)} :
            /\ Len(r.clusters) <= MaxClusterEvents
            /\ wallets' = r.wallets
            /\ tokens' = r.tokens
            /\ trades' = r.trades
            /\ clusters' = r.clusters
            /\ last' = Logged("process_buy_event", ev, r, 0)
            /\ first' = FirstSignals(ev, r)
            /\ held' = r.signals
            /\ UNCHANGED <<limiter, calls, loops, now, tracked, alerts, bot, sink, outcomes, out>>

HandleWebhook(X) ==
    \E tx \in X :
        \E r \in {handle_webhook(wallets, tracked, tokens, trades, clusters,
                                 alerts, now, tx)},
           p \in {_parse_transaction(tx, now)} :
            /\ Len(r.clusters) <= MaxClusterEvents
            /\ Len(r.alerts) <= MaxAlerts
            /\ wallets' = r.wallets
            /\ tokens' = r.tokens
            /\ trades' = r.trades
            /\ clusters' = r.clusters
            /\ alerts' = r.alerts
            /\ last' = IF r.called
                       THEN Logged("handle_webhook", p[1], r,
                                   Len(r.alerts) - Len(alerts))
                       ELSE NoCall("handle_webhook")
            /\ first' = IF r.called THEN FirstSignals(p[1], r) ELSE first
            /\ held' = << >>
            /\ UNCHANGED <<limiter, calls, loops, now, tracked, bot, sink, outcomes, out>>

\* A delivery of a payload of several transactions to handle_webhook.
HandleWebhookPayload(P) ==
    \E payload \in P, failing \in {{}, {1}, {2}} :
        /\ failing \subseteq DOMAIN payload
        /\ \E r \in {handle_webhook_payload(
                        [wallets |-> wallets, tokens |-> tokens, trades |-> trades,
                         clusters |-> clusters, alerts |-> alerts,
                         returned |-> << >>, per_tx |-> << >>],
                        tracked, now, payload, failing, 1)} :
              /\ Len(r.clusters) <= MaxClusterEvents
              /\ Len(r.alerts) <= MaxAlerts
              /\ wallets' = r.wallets
              /\ tokens' = r.tokens
              /\ trades' = r.trades
              /\ clusters' = r.clusters
              /\ alerts' = r.alerts
              /\ out' = [Op("handle_webhook", payload) EXCEPT
                            !.returned = r.returned,
                            !.results = r.per_tx,
                            !.failed = failing]
        /\ UNCHANGED <<limiter, calls, loops, now, tracked, last, first, held, bot, sink, outcomes>>

\* The task startup() scheduled builds the bot's application.
BotStart ==
    /\ bot = "created"
    /\ bot' = "started"
    /\ UNCHANGED <<limiter, calls, loops, now, wallets, tracked, tokens, trades, clusters, alerts, last,
                   first, held, sink, outcomes, out>>

\* A request to /webhook/helius carrying one transaction; A are the answers
\* send_message can give.
HeliusWebhook(X, A) ==
    \E tx \in X :
        \E r \in {handle_webhook(wallets, tracked, tokens, trades, clusters,
                                 alerts, now, tx)},
           p \in {_parse_transaction(tx, now)} :
            /\ Len(r.clusters) <= MaxClusterEvents
            /\ Len(r.alerts) <= MaxAlerts
            /\ \E answers \in [1..(Len(r.alerts) - Len(alerts)) -> A] :
                 \E d \in {helius_webhook(bot, r, sink,
                                [i \in 1..(Len(r.alerts) - Len(alerts)) |-> Len(alerts) + i],
                                answers, now)} :
                    /\ alerts' = d.alerts
                    /\ sink' = d.sink
            /\ wallets' = r.wallets
            /\ tokens' = r.tokens
            /\ trades' = r.trades
            /\ clusters' = r.clusters
            /\ last' = IF r.called
                       THEN Logged("handle_webhook", p[1], r,
                                   Len(r.alerts) - Len(alerts))
                       ELSE NoCall("handle_webhook")
            /\ first' = IF r.called THEN FirstSignals(p[1], r) ELSE first
            /\ held' = << >>
            /\ out' = Op("helius_webhook", 0)
            /\ UNCHANGED <<limiter, calls, loops, now, tracked, bot, outcomes>>

\* The statuses that the checks just made returned, by alert.
Classified(results) ==
    [k \in DOMAIN outcomes \cup {results[i].alert_id : i \in DOMAIN results} |->
        IF \E i \in DOMAIN results : results[i].alert_id = k
        THEN results[CHOOSE i \in DOMAIN results : results[i].alert_id = k].status
        ELSE outcomes[k]]

\* check_alert_outcome called on one stored alert.
CheckAlertOutcome(Q) ==
    \E k \in DOMAIN alerts, metadata \in Q :
        \E j \in first_trigger_trades(trades, alerts[k]) :
            \E r \in {check_alert_outcome(tokens, alerts, trades, k, metadata, j, now)} :
                /\ tokens' = r.tokens
                /\ alerts' = r.alerts
                /\ outcomes' = Classified(r.outcome)
                /\ out' = [Op("check_alert_outcome", k) EXCEPT
                              !.results = r.outcome,
                              !.was = outcomes,
                              !.failed = IF r.outcome = <<>> THEN {k} ELSE {}]
                /\ UNCHANGED <<limiter, calls, loops, now, wallets, tracked, trades, clusters, last, first,
                               held, bot, sink>>

\* The answers of the metadata service and of the trade query to a run over
\* the selected alerts: one of QA for the first of them and one of QB for
\* all the others.
Answered(selected, QA, QB) ==
    {[i \in DOMAIN selected |-> IF i = 1 THEN a ELSE b] :
        a \in [metadata : QA, first : DOMAIN trades \cup {0}],
        b \in [metadata : QB, first : DOMAIN trades \cup {0}]}

\* One run of check_pending_alerts, as outcome_check_loop makes it.
CheckPendingAlerts(QA, QB) ==
    \E selected \in {select_pending(alerts, now)} :
        \E env \in Answered(selected, QA, QB) :
            /\ \A i \in DOMAIN selected :
                  env[i].first \in first_trigger_trades(trades, alerts[selected[i]])
            /\ \E r \in {check_pending_alerts(tokens, alerts, trades, selected, env, now)} :
                  /\ tokens' = r.tokens
                  /\ alerts' = r.alerts
                  /\ outcomes' = Classified(r.outcomes)
                  /\ out' = [Op("check_pending_alerts", 0) EXCEPT
                                !.selected = selected,
                                !.results = r.outcomes,
                                !.was = outcomes,
                                !.failed = {selected[i] : i \in
                                              {x \in DOMAIN selected :
                                                 env[x].metadata.status = "failed"}}]
            /\ UNCHANGED <<limiter, calls, loops, now, wallets, tracked, trades, clusters, last, first,
                           held, bot, sink>>

\* A caller passes one of the signals it holds through enrichment; the
\* metadata service and the risk check answer or raise.
EnrichSignal(M, R) ==
    \E i \in DOMAIN held, metadata \in M, rug_result \in R :
        \E r \in {enrich_and_validate_signal(tokens, held[i], metadata, rug_result)} :
            /\ tokens' = r.tokens
            /\ held' = [held EXCEPT ![i] = r.signal]
            /\ out' = [Op("enrich_and_validate_signal", i) EXCEPT
                          !.failure = IF metadata.status = "failed" THEN "metadata"
                                      ELSE IF rug_result.status = "failed"
                                           THEN "rug_check" ELSE "none",
                          !.unenriched = ~held[i].rug_checked]
            /\ UNCHANGED <<limiter, calls, loops, now, wallets, tracked, trades, clusters, alerts, last,
                           first, bot, sink, outcomes>>

\* A caller asks for the alert of one of the signals it holds.
CreateAlert(K) ==
    \E i \in DOMAIN held, skip_rug_failed \in K :
        \E a \in {create_alert(wallets, held[i], skip_rug_failed, now)} :
            /\ Len(alerts) + Len(a) <= MaxAlerts
            /\ alerts' = alerts \o a
            /\ out' = [Op("create_alert", i) EXCEPT
                          !.skip = skip_rug_failed,
                          !.returned = a,
                          !.prev = [op |-> out.op, arg |-> out.arg,
                                    failure |-> out.failure,
                                    unenriched |-> out.unenriched]]
            /\ UNCHANGED <<limiter, calls, loops, now, wallets, tracked, tokens, trades, clusters, last,
                           first, held, bot, sink, outcomes>>


\* calculate_score called on one stored wallet.
CalculateScore ==
    \E w \in DOMAIN wallets :
        /\ out' = [Op("calculate_score", w) EXCEPT
                      !.scored = {w},
                      !.scores = [a \in {w} |->
                                    calculate_score(wallets, tokens, trades, a, now)]]
        /\ UNCHANGED <<limiter, calls, loops, now, wallets, tracked, tokens, trades, clusters, alerts,
                       last, first, held, bot, sink, outcomes>>

\* One run of update_all_scores, as conviction_update_loop makes it; F are
\* the wallets for which calculate_score may raise.
UpdateAllScores(F) ==
    \E failing \in SUBSET F :
        \E r \in {update_all_scores(wallets, tokens, trades, failing, now)} :
            /\ wallets' = r.wallets
            /\ out' = [Op("update_all_scores", 0) EXCEPT
                          !.returned = <<r.updated>>,
                          !.scored = scored_wallets(wallets),
                          !.failed = failing \cap scored_wallets(wallets),
                          !.scores = [a \in scored_wallets(wallets) \ failing |->
                                        calculate_score(wallets, tokens, trades, a, now)]]
            /\ UNCHANGED <<limiter, calls, loops, now, tracked, tokens, trades, clusters, alerts, last,
                           first, held, bot, sink, outcomes>>

\* where outcome_check_loop stands after it has started the run as a task of
\* its own instead of awaiting it: in its sleep of 30 minutes
outcome_loop_after_create_task(t) ==
    [pc |-> "sleeping", wake |-> t + outcome_check_interval]

\* where outcome_check_loop stands after calling check_pending_alerts: it
\* awaits the run and sleeps only when the run has returned
outcome_loop_after_call(t) == [pc |-> "awaiting", wake |-> None]

\* the loop when a run of check_pending_alerts returns or raises: the loop
\* that awaited it logs and goes to its sleep of 30 minutes
outcome_loop_after_run(loop, t) ==
    IF loop.pc = "awaiting"
    THEN [pc |-> "sleeping", wake |-> t + outcome_check_interval]
    ELSE loop

Without(s, i) == SubSeq(s, 1, i - 1) \o SubSeq(s, i + 1, Len(s))

\* outcome_check_loop wakes from its sleep and calls check_pending_alerts,
\* which makes its query and starts on the alerts selected.
OutcomeLoopCall ==
    /\ loops.outcome.pc = "sleeping"
    /\ now >= loops.outcome.wake
    /\ Len(loops.runs) < MaxRuns
    /\ loops' = [loops EXCEPT
                   !.outcome = outcome_loop_after_call(now),
                   !.runs = Append(@, [todo |-> select_pending(alerts, now),
                                       outcomes |-> << >>])]
    /\ UNCHANGED <<limiter, calls, now, wallets, tracked, tokens, trades, clusters, alerts, last,
                   first, held, bot, sink, outcomes, out>>

\* A run of check_pending_alerts in progress gets the answer of the metadata
\* service it awaited and finishes the check of its next alert.
OutcomeRunStep(Q) ==
    \E i \in DOMAIN loops.runs, metadata \in Q :
        /\ loops.runs[i].todo # << >>
        /\ \E j \in first_trigger_trades(trades, alerts[Head(loops.runs[i].todo)]) :
             \E r \in {check_one(tokens, alerts, trades, Head(loops.runs[i].todo),
                                 [metadata |-> metadata, first |-> j], now,
                                 loops.runs[i].outcomes)} :
                /\ tokens' = r.tokens
                /\ alerts' = r.alerts
                /\ outcomes' = Classified(SubSeq(r.outcomes,
                                                 Len(loops.runs[i].outcomes) + 1,
                                                 Len(r.outcomes)))
                /\ loops' = [loops EXCEPT
                               !.runs[i] = [todo |-> Tail(loops.runs[i].todo),
                                            outcomes |-> r.outcomes]]
        /\ UNCHANGED <<limiter, calls, now, wallets, tracked, trades, clusters, last, first, held,
                       bot, sink, out>>

\* A run of check_pending_alerts that has gone through its alerts returns.
OutcomeRunReturn ==
    \E i \in DOMAIN loops.runs :
        /\ loops.runs[i].todo = << >>
        /\ loops' = [loops EXCEPT
                       !.runs = Without(@, i),
                       !.outcome = outcome_loop_after_run(@, now)]
        /\ UNCHANGED <<limiter, calls, now, wallets, tracked, tokens, trades, clusters, alerts, last,
                       first, held, bot, sink, outcomes, out>>

\* conviction_update_loop wakes from its sleep, makes its run of
\* update_all_scores, a call without an await, and sleeps for six hours.
ConvictionLoopRun(F) ==
    /\ loops.conviction.pc = "sleeping"
    /\ now >= loops.conviction.wake
    /\ \E failing \in SUBSET F :
        \E r \in {update_all_scores(wallets, tokens, trades, failing, now)} :
            /\ wallets' = r.wallets
            /\ out' = [Op("update_all_scores", 0) EXCEPT
                          !.returned = <<r.updated>>,
                          !.scored = scored_wallets(wallets),
                          !.failed = failing \cap scored_wallets(wallets),
                          !.scores = [a \in scored_wallets(wallets) \ failing |->
                                        calculate_score(wallets, tokens, trades, a, now)]]
    /\ loops' = [loops EXCEPT
                   !.conviction = [pc |-> "sleeping",
                                   wake |-> now + conviction_update_interval]]
    /\ UNCHANGED <<limiter, calls, now, tracked, tokens, trades, clusters, alerts, last, first,
                   held, bot, sink, outcomes>>


\* The task of outcome_check_loop is cancelled while a run of
\* check_pending_alerts awaits the metadata service: CancelledError passes
\* the except clauses of the run and of the loop, the session is closed and
\* the alerts left to check are dropped.
AbandonOutcomeRun ==
    \E i \in DOMAIN loops.runs :
        /\ loops.runs[i].todo # << >>
        /\ loops' = [loops EXCEPT
                       !.runs = Without(@, i),
                       !.outcome = [pc |-> "cancelled", wake |-> None]]
        /\ UNCHANGED <<limiter, calls, now, wallets, tracked, tokens, trades, clusters, alerts, last,
                       first, held, bot, sink, outcomes, out>>

\* The caller of enrich_and_validate_signal is cancelled while the
\* enrichment awaits the risk check: the token fields set from the metadata
\* are committed, the signal is not returned.
AbandonEnrichment(M) ==
    \E i \in DOMAIN held, metadata \in M :
        /\ tokens' = enrich_and_validate_signal(tokens, held[i], metadata,
                                                RugCheckFailed).tokens
        /\ out' = [Op("enrich_and_validate_signal", i) EXCEPT
                      !.failure = "cancelled",
                      !.unenriched = ~held[i].rug_checked]
        /\ UNCHANGED <<limiter, calls, loops, now, wallets, tracked, trades, clusters, alerts, last,
                       first, held, bot, sink, outcomes>>


\* A caller asks for the performance statistics of the last days days.
GetPerformanceStats(D) ==
    \E days \in D :
        /\ out' = [Op("get_performance_stats", days) EXCEPT
                      !.returned = <<get_performance_stats(alerts, days, now)>>]
        /\ UNCHANGED <<limiter, calls, loops, now, wallets, tracked, tokens, trades, clusters, alerts,
                       last, first, held, bot, sink, outcomes>>

\* A caller runs a backtest with one of the configurations of C; D are the
\* values the random draws of _simulate_exit can take.
RunBacktest(C, D) ==
    \E config \in C, draws \in [DOMAIN alerts -> D] :
        \E result \in {run_backtest(tokens, alerts, trades, config, draws)} :
            \E db \in {session_after_backtest(
                          [wallets |-> wallets, tokens |-> tokens, trades |-> trades,
                           clusters |-> clusters, alerts |-> alerts], result)} :
                /\ wallets' = db.wallets
                /\ tokens' = db.tokens
                /\ trades' = db.trades
                /\ clusters' = db.clusters
                /\ alerts' = db.alerts
                /\ out' = [Op("run_backtest", 0) EXCEPT !.backtest = <<result>>]
                /\ UNCHANGED <<limiter, calls, now, tracked, last, first, held, bot, sink, outcomes,
                               loops>>

\* The /add command of an admin: the columns cmd_add_wallet gives.
AddWallet(A) ==
    \E address \in A :
        /\ wallets' = upsert_wallet(wallets, address,
                                    [is_active |-> TRUE, win_rate |-> 0])
        /\ out' = Op("cmd_add_wallet", address)
        /\ UNCHANGED <<limiter, calls, now, tracked, tokens, trades, clusters, alerts, last, first,
                       held, bot, sink, outcomes, loops>>

\* The /remove command of an admin.
RemoveWallet(A) ==
    \E address \in A :
        /\ wallets' = IF address \in DOMAIN wallets
                      THEN [wallets EXCEPT ![address].is_active = FALSE]
                      ELSE wallets
        /\ out' = Op("cmd_remove_wallet", address)
        /\ UNCHANGED <<limiter, calls, now, tracked, tokens, trades, clusters, alerts, last, first,
                       held, bot, sink, outcomes, loops>>

\* discovery_loop saves one wallet the scrapers found: a new address is
\* stored with the scraped figures and added to the webhook handler's cache,
\* a stored one is left as it is.
DiscoverWallet(S) ==
    \E w \in S :
        /\ IF get_by_address(wallets, w.address) = <<>>
           THEN /\ wallets' = upsert_wallet(wallets, w.address,
                                  [win_rate |-> w.win_rate,
                                   pnl_total_sol |-> w.pnl_total_sol,
                                   is_active |-> TRUE])
                /\ tracked' = tracked \cup {w.address}
           ELSE UNCHANGED <<limiter, calls, wallets, tracked>>
        /\ out' = Op("discovery_loop", w.address)
        /\ UNCHANGED <<limiter, calls, now, tokens, trades, clusters, alerts, last, first, held,
                       bot, sink, outcomes, loops>>

\* --- Spec: direct calls that set the token's data, and webhook deliveries,
\* --- of two signatures, by the two stored wallets and an unknown one.
MainTimes == {0, 3}
MainEvents(t) ==
    BuyEvents({"W1", UnknownWallet}, {"T1"}, {10}, {5},
              {<<None, None>>, <<50, 1000>>}, {1}, BlockTimes(MainTimes, t))
MainTransactions(t) ==
    Swaps(StoredWallets \cup {UnknownWallet}, {"T1"}, {10}, {5}, Sigs, {None})
    \cup NoBuys

Next ==
    \/ Tick(MainTimes)
    \/ ProcessBuyEvent(MainEvents(now))
    \/ HandleWebhook(MainTransactions(now))

Spec == Init /\ [][Next]_vars

\* --- SpecSignals: direct calls by the two stored wallets on one token, each
\* --- giving the market cap, the total supply or neither.
SignalEvents ==
    BuyEvents(StoredWallets, {"T1"}, {10}, {5},
              {<<None, None>>, <<None, 1000>>, <<50, None>>}, Sigs, {0})

NextSignals == ProcessBuyEvent(SignalEvents)

SpecSignals == Init /\ [][NextSignals]_vars

\* --- SpecHC: direct calls by one wallet under one signature, over sol
\* --- amounts, token amounts and total supplies around the thresholds.
HCEvents ==
    BuyEvents({"W1"}, {"T1"}, {4, 10, 11}, {4, 5, 6},
              {<<None, None>>, <<None, 0>>, <<None, 1000>>, <<None, 2000>>},
              {1}, {0})

NextHC == ProcessBuyEvent(HCEvents)

SpecHC == Init /\ [][NextHC]_vars

\* --- SpecCluster: webhook deliveries of buys by the two stored wallets on one
\* --- token, at and below the cluster minimum, stamped with the time of the
\* --- delivery or, for a late delivery, with minute 1.
ClusterTimes == {0, 6}
ClusterStamps(t) == IF t = 0 THEN {0} ELSE {1, t}
ClusterTransactions(t) ==
    Swaps({"W1"}, {"T1"}, {5}, {5}, Sigs, ClusterStamps(t))
    \cup Swaps({"W2"}, {"T1"}, {4, 5}, {5}, Sigs, ClusterStamps(t))

NextCluster ==
    \/ Tick(ClusterTimes)
    \/ HandleWebhook(ClusterTransactions(now))

SpecCluster == Init /\ [][NextCluster]_vars

\* --- SpecVolume: direct calls on one token up to and past the age limit of a
\* --- new token; the market cap is not given, or given (zero or positive)
\* --- with the first signature.
VolumeTimes == {0, 60, 61}
VolumeEvents(t) ==
    BuyEvents({"W1"}, {"T1"}, {5}, {5}, {<<None, None>>}, Sigs, {t})
    \cup BuyEvents({"W1"}, {"T1"}, {5}, {5},
                   {<<0, None>>, <<50, None>>, <<100, None>>}, {1}, {t})

NextVolume ==
    \/ Tick(VolumeTimes)
    \/ ProcessBuyEvent(VolumeEvents(now))

SpecVolume == Init /\ [][NextVolume]_vars

\* --- SpecAlerts: a direct call by each stored wallet, the second of which
\* --- triggers the cluster signal; the caller enriches the result and turns
\* --- it into alerts.
AlertEvents ==
    BuyEvents({"W1"}, {"T1"}, {5}, {5}, {<<None, 1000>>}, {1}, {0})
    \cup BuyEvents({"W2"}, {"T1"}, {5}, {5}, {<<None, 1000>>}, {2}, {0})
Metadatas == {MetadataFailed, Metadata(200, 0)}
RugChecks == {RugCheckFailed, RugCheck(TRUE, 10, <<>>), RugCheck(FALSE, 90, <<"mintable">>)}

NextAlerts ==
    \/ ProcessBuyEvent(AlertEvents)
    \/ EnrichSignal(Metadatas, RugChecks)
    \/ CreateAlert(BOOLEAN)

SpecAlerts == Init /\ [][NextAlerts]_vars

\* --- SpecDelivery: requests to the webhook endpoint with buys of the two
\* --- stored wallets that make a cluster, repeated deliveries included, with
\* --- no bot configured, a bot whose application is not built yet, and a
\* --- started bot whose send_message succeeds or raises.
InitDelivery ==
    \E token_configured \in BOOLEAN : Startup(token_configured, NewDatabase)
DeliveryTransactions == Swaps(StoredWallets, {"T1"}, {5}, {5}, Sigs, {None})
Answers == {"delivered", "failed"}

NextDelivery ==
    \/ BotStart
    \/ HeliusWebhook(DeliveryTransactions, Answers)

SpecDelivery == InitDelivery /\ [][NextDelivery]_vars

\* --- SpecOutcome: a direct call that records a buy of minute 0 at a market
\* --- cap of 20 SOL and triggers the high-conviction signal, repeated later;
\* --- the enrichment of the signal; one alert made of it at minute 0; and
\* --- checks of its outcome before and at the minimum age, at prices on
\* --- both sides of each threshold.
OutcomeTimes == {0, 29, 30}
OutcomeEvents == BuyEvents({"W1"}, {"T1"}, {10}, {5}, {<<200, 1000>>}, {1}, {0})
FirstAlertOnly == IF alerts = <<>> /\ now = 0 THEN {TRUE} ELSE {}
Quotes ==
    {QuoteFailed} \cup {Quote(p, 0) : p \in {40, 42, 140, 142, 238, 240}}

NextOutcome ==
    \/ Tick(OutcomeTimes)
    \/ ProcessBuyEvent(OutcomeEvents)
    \/ EnrichSignal({Metadata(300, 0)}, {RugCheck(TRUE, 10, <<>>)})
    \/ CreateAlert(FirstAlertOnly)
    \/ CheckAlertOutcome(Quotes)

SpecOutcome == Init /\ [][NextOutcome]_vars

\* --- SpecRecheck: the same buy, alerts made of it at minute 0, and the
\* --- periodic run of check_pending_alerts before and at the minimum age and
\* --- after the re-check delay, at a price under the rug threshold, the
\* --- price of the alert, one over the win threshold, and with the metadata
\* --- service failing.
RecheckTimes == {0, 29, 30, 270}
RecheckEvents(t) == IF t = 0 THEN OutcomeEvents ELSE {}
AtStart == IF now = 0 THEN {TRUE} ELSE {}
RecheckQuotes == {QuoteFailed, Quote(40, 0), Quote(200, 0), Quote(240, 0)}

NextRecheck ==
    \/ Tick(RecheckTimes)
    \/ ProcessBuyEvent(RecheckEvents(now))
    \/ CreateAlert(AtStart)
    \/ CheckPendingAlerts(RecheckQuotes, RecheckQuotes)

SpecRecheck == Init /\ [][NextRecheck]_vars

\* --- SpecBatch: a start on a database that holds the buy of SpecOutcome
\* --- and as many alerts of its signal as the batch limit, one less and one
\* --- more, followed by the periodic runs of check_pending_alerts; the
\* --- metadata service may fail on the first alert of a run.
BatchSizes == {batch_limit - 1, batch_limit, batch_limit + 1}
BatchTimes == {0, 29, 30, 270}
BatchQuotes == {QuoteFailed, Quote(240, 0)}

\* the database after the buy of OutcomeEvents and n calls of create_alert
\* on its signal, all at minute 0
DatabaseWithAlerts(n) ==
    LET ev == CHOOSE e \in OutcomeEvents : TRUE
        r == process_buy_event(NewDatabase.wallets, << >>, << >>, << >>, 0, ev)
        alert == create_alert(r.wallets, r.signals[1], TRUE, 0)[1]
    IN  [wallets |-> r.wallets, tokens |-> r.tokens, trades |-> r.trades,
         clusters |-> r.clusters, alerts |-> [i \in 1..n |-> alert]]

InitBatch == \E n \in BatchSizes : Startup(TRUE, DatabaseWithAlerts(n))

NextBatch ==
    \/ Tick(BatchTimes)
    \/ CheckPendingAlerts(BatchQuotes, {Quote(240, 0)})

SpecBatch == InitBatch /\ [][NextBatch]_vars


\* --- SpecTrades: direct calls under one signature: a buy of minute 0, and
\* --- the events that differ from it in the wallet, in the token, in an
\* --- amount, in the block time, in the market cap, or in all of them; the
\* --- alert of the high-conviction signal and checks of its outcome.
TradeTimes == {0, 1}
FirstTrade ==
    [wallet_address |-> "W1", token_ca |-> "T1", sol_amount |-> 10,
     token_amount |-> 5, tx_signature |-> 1, block_time |-> 0,
     market_cap |-> 50, total_supply |-> 1000]
Differences(e) ==
    {f \in {"wallet_address", "token_ca", "sol_amount", "token_amount",
            "block_time", "market_cap"} : e[f] # FirstTrade[f]}
TradeEvents(t) ==
    {e \in BuyEvents(StoredWallets, {"T1", "T2"}, {10, 11}, {5, 6},
                     {<<50, 1000>>, <<60, 1000>>}, {1}, BlockTimes(TradeTimes, t)) :
        Cardinality(Differences(e)) \in {0, 1, 6}}

NextTrades ==
    \/ Tick(TradeTimes)
    \/ ProcessBuyEvent(TradeEvents(now))
    \/ CreateAlert(FirstAlertOnly)
    \/ CheckAlertOutcome({Quote(240, 0)})

SpecTrades == Init /\ [][NextTrades]_vars


\* --- SpecScores: a start on a database whose first wallet has a win rate
\* --- and a total pnl on both sides of every bound of the score, and
\* --- recorded buys of five shapes (none; three tokens evenly; three tokens
\* --- unevenly; six tokens, one of them far larger; eleven buys of one
\* --- token), on tokens of which none or the first is flagged; the second
\* --- wallet is active or not.  A later buy of the first wallet, and the
\* --- scoring of one wallet and of all (in which the scoring of the first
\* --- wallet may raise), up to a week after.
WinRates == {50, 51, 100, 150}
PnlTotals == {-20, 0, 500, 2000}
TradeShapes == {"none", "even", "uneven", "skewed", "many"}
ScoreTokens == [i \in 1..6 |-> <<"T1", "T2", "T3", "T4", "T5", "T6">>[i]]
ScoreTimes == {0, 31, seven_days_minutes + 1}

\* the minute, before minute 0, at which the tokens of a shape were first seen
launch_minute == -40

\* the buys of a shape: token, SOL and block time of each; of the eleven buys
\* of "many" the first three are at the launch minute and the others 40
\* minutes later
ShapeBuys(shape) ==
    IF shape = "even" THEN <<<<1, 10, 0>>, <<2, 10, 0>>, <<3, 10, 0>>>>
    ELSE IF shape = "uneven" THEN <<<<1, 5, 0>>, <<2, 10, 0>>, <<3, 30, 0>>>>
    ELSE IF shape = "skewed"
    THEN <<<<1, 100, 0>>, <<2, 1, 0>>, <<3, 1, 0>>, <<4, 1, 0>>, <<5, 1, 0>>,
           <<6, 1, 0>>>>
    ELSE IF shape = "many"
    THEN [i \in 1..11 |-> <<1, 5, IF i <= 3 THEN launch_minute ELSE 0>>]
    ELSE << >>

\* the database after the buys of the shape by the first wallet at minute 0
\* (signatures from 101 on), with the tokens of flagged marked is_rugged
DatabaseWithBuys(shape, win_rate, pnl_total, flagged, second_active) ==
    LET buys == ShapeBuys(shape)
        traded == {ScoreTokens[buys[i][1]] : i \in DOMAIN buys}
    IN  [wallets |->
            [a \in StoredWallets |->
                IF a = "W1"
                THEN [is_active |-> TRUE, win_rate |-> win_rate,
                      pnl_total_sol |-> pnl_total, conviction_score |-> 0,
                      last_activity |-> IF buys = << >> THEN None ELSE 0]
                ELSE [is_active |-> second_active, win_rate |-> 80,
                      pnl_total_sol |-> 0, conviction_score |-> 0,
                      last_activity |-> None]],
         tokens |-> [c \in traded |->
                       [market_cap_sol |-> None, total_supply |-> None,
                        launched_at |-> launch_minute, is_rugged |-> c \in flagged]],
         trades |-> [i \in DOMAIN buys |->
                       [wallet_id |-> "W1", token_id |-> ScoreTokens[buys[i][1]],
                        tx_signature |-> 100 + i, trade_type |-> "BUY",
                        sol_amount |-> buys[i][2], token_amount |-> 5,
                        supply_percentage |-> 0, mcap_at_trade |-> None,
                        block_time |-> buys[i][3]]],
         clusters |-> << >>, alerts |-> << >>]

InitScores ==
    \E shape \in TradeShapes, win_rate \in WinRates, pnl_total \in PnlTotals,
       flagged \in {{}, {"T1"}},
       second_active \in BOOLEAN :
        Startup(TRUE, DatabaseWithBuys(shape, win_rate, pnl_total, flagged,
                                       second_active))

ScoreEvents(t) ==
    IF t = 31
    THEN BuyEvents({"W1"}, {"T1"}, {5}, {5}, {<<None, None>>}, {1}, {t})
    ELSE {}

NextScores ==
    \/ Tick(ScoreTimes)
    \/ ProcessBuyEvent(ScoreEvents(now))
    \/ CalculateScore
    \/ UpdateAllScores({"W1"})

SpecScores == InitScores /\ [][NextScores]_vars


\* --- SpecLoops: a start on a database that holds the buy of SpecOutcome and
\* --- one or two alerts of its signal, followed by the two periodic loops:
\* --- the initial delays, the runs and the sleeps between them, with the
\* --- clock passing at any point of a run of check_pending_alerts.
LoopTimes == {0, 1, 2, 32, 62, 361}
LoopQuotes == {QuoteFailed, Quote(240, 0)}

InitLoops == \E n \in {1, 2} : Startup(TRUE, DatabaseWithAlerts(n))

NextLoops ==
    \/ Tick(LoopTimes)
    \/ OutcomeLoopCall
    \/ OutcomeRunStep(LoopQuotes)
    \/ OutcomeRunReturn
    \/ ConvictionLoopRun({"W1"})

SpecLoops == InitLoops /\ [][NextLoops]_vars


\* --- SpecBacktest: a buy of minute 0 that sets the token's market cap, the
\* --- alert of its signal, an outcome check that may flag the token, buys an
\* --- hour later at a lower, the same and a higher market cap, and backtests
\* --- with the configuration of run_quick_backtest and with it changed in
\* --- the exit strategy, in the position size and the win-rate filter, or
\* --- in the skipping of flagged tokens.
BacktestTimes == {0, 60}
BacktestEvents(t) ==
    IF t = 0 THEN BuyEvents({"W1"}, {"T1"}, {10}, {5}, {<<200, 1000>>}, {1}, {0})
    ELSE IF t = 60
    THEN BuyEvents({"W2"}, {"T1"}, {10}, {5},
                   {<<100, 1000>>, <<200, 1000>>, <<300, 1000>>}, {2}, {60})
    ELSE {}
BacktestConfigs(t) ==
    {quick_config(t, 7),
     [quick_config(t, 7) EXCEPT !.skip_rugged_tokens = FALSE],
     [quick_config(t, 7) EXCEPT !.position_size_sol = 20,
                                !.min_wallet_win_rate = 75],
     [quick_config(t, 7) EXCEPT !.exit_strategy = TAKE_PROFIT],
     [quick_config(t, 7) EXCEPT !.exit_strategy = STOP_LOSS]}
BacktestDraws == {[uniform |-> 10, gauss |-> -20], [uniform |-> 50, gauss |-> 120]}
BacktestQuotes == {Quote(20, 0)}
\* up to two alerts, created at minute 0
AlertsAtStart == IF now = 0 /\ Len(alerts) < 2 THEN {TRUE} ELSE {}

NextBacktest ==
    \/ Tick(BacktestTimes)
    \/ ProcessBuyEvent(BacktestEvents(now))
    \/ CreateAlert(AlertsAtStart)
    \/ CheckAlertOutcome(BacktestQuotes)
    \/ RunBacktest(BacktestConfigs(now), BacktestDraws)

SpecBacktest == Init /\ [][NextBacktest]_vars


\* --- SpecOwners: every operation on the stores: at minute 0 a webhook
\* --- delivery of a small buy and a direct call of a high-conviction buy,
\* --- enrichment and the alert of its signal; at minute 30 outcome checks, one by one and in a run, and
\* --- a backtest; at minute 60 the scoring of one wallet and of all, and the
\* --- adding, removing and discovery of wallets, followed by a backtest.
OwnerTimes == {0, 30, 60}
At(t, S) == IF now = t THEN S ELSE {}
OwnerEvents(t) ==
    IF t = 0 THEN BuyEvents({"W1"}, {"T1"}, {10}, {5}, {<<200, 1000>>}, {1}, {0})
    ELSE {}
\* the delivery, when there is one, comes before the direct call
OwnerTransactions(t) ==
    IF t = 0 /\ trades = << >>
    THEN Swaps({"W2"}, {"T2"}, {5}, {5}, {2}, {None}) ELSE {}
OwnerQuotes == {Quote(20, 0)}
ScrapedWallets ==
    {[address |-> "W1", win_rate |-> 90, pnl_total_sol |-> 500],
     [address |-> "W3", win_rate |-> 90, pnl_total_sol |-> 500]}

NextOwners ==
    \/ Tick(OwnerTimes)
    \/ ProcessBuyEvent(OwnerEvents(now))
    \/ HandleWebhook(OwnerTransactions(now))
    \/ EnrichSignal(At(0, {Metadata(300, 0)}), {RugCheck(TRUE, 10, <<>>)})
    \/ CreateAlert(FirstAlertOnly)
    \/ CheckAlertOutcome(At(30, OwnerQuotes))
    \/ CheckPendingAlerts(At(30, OwnerQuotes), OwnerQuotes)
    \/ (now = 60 /\ CalculateScore)
    \/ (now = 60 /\ UpdateAllScores({}))
    \/ RunBacktest(At(30, {quick_config(now, 7)}) \cup At(60, {quick_config(now, 7)}),
                   {[uniform |-> 50, gauss |-> 120]})
    \/ AddWallet(At(60, {"W1"}))
    \/ RemoveWallet(At(60, {"W2"}))
    \/ DiscoverWallet(At(60, ScrapedWallets))

SpecOwners == Init /\ [][NextOwners]_vars


\* --- SpecRemoved: one of the two wallets is removed by the admin command,
\* --- before or after the handler was constructed; buys of both wallets
\* --- on one token are delivered to the webhook and submitted directly.
RemovedTimes == {0, 1}
\* the database found at startup: W1 active, or deactivated in an earlier run
DatabaseWithRemoved(active) ==
    [NewDatabase EXCEPT !.wallets["W1"].is_active = active]
InitRemoved == \E active \in BOOLEAN : Startup(TRUE, DatabaseWithRemoved(active))
RemovedEvents(t) ==
    BuyEvents(StoredWallets, {"T1"}, {5}, {5}, {<<None, None>>}, Sigs, {t})
RemovedTransactions(t) == Swaps(StoredWallets, {"T1"}, {5}, {5}, Sigs, {t})

NextRemoved ==
    \/ Tick(RemovedTimes)
    \/ RemoveWallet({"W1"})
    \/ ProcessBuyEvent(RemovedEvents(now))
    \/ HandleWebhook(RemovedTransactions(now))

SpecRemoved == InitRemoved /\ [][NextRemoved]_vars


\* --- SpecAbandon: a start on a database that holds the buy of SpecOutcome
\* --- and one or two alerts of its signal; the outcome loop makes its runs,
\* --- at a price under the rug threshold, at one over the win threshold or
\* --- with the metadata service failing, and may be cancelled at the await
\* --- of any of its checks; the buy is submitted again and its signal
\* --- enriched, the enrichment being cancelled or not.
AbandonTimes == {0, 2, 32}
AbandonQuotes == {QuoteFailed, Quote(40, 0), Quote(240, 0)}
AbandonMetadatas == {MetadataFailed, Metadata(300, 0)}

NextAbandon ==
    \/ Tick(AbandonTimes)
    \/ OutcomeLoopCall
    \/ OutcomeRunStep(AbandonQuotes)
    \/ OutcomeRunReturn
    \/ AbandonOutcomeRun
    \/ ProcessBuyEvent(At(0, OutcomeEvents))
    \/ EnrichSignal(AbandonMetadatas, {RugCheck(FALSE, 90, <<>>)})
    \/ AbandonEnrichment(AbandonMetadatas)

SpecAbandon == InitLoops /\ [][NextAbandon]_vars


\* --- SpecStats: the buy of SpecOutcome, alerts made of its signal at
\* --- minute 0, checks of their outcomes at minute 30 at prices that give
\* --- each of -80, -30, 0 and +20 percent, and the statistics of seven days
\* --- asked for at any moment, the alerts being inside the window or, eight
\* --- days later, outside.
StatsTimes == {0, 30, 8 * day_minutes}
StatsQuotes == {Quote(40, 0), Quote(140, 0), Quote(200, 0), Quote(240, 0)}

NextStats ==
    \/ Tick(StatsTimes)
    \/ ProcessBuyEvent(RecheckEvents(now))
    \/ CreateAlert(AtStart)
    \/ CheckAlertOutcome(At(30, StatsQuotes))
    \/ GetPerformanceStats({7})

SpecStats == Init /\ [][NextStats]_vars


\* --- SpecStarve: a start on a database that holds as many alerts of SpecOutcome's
\* --- buy of T1 as the batch limit, or one less, and after them
\* --- one alert of a buy of T2, all of minute 0; the outcome loop
\* --- makes its runs every 30 minutes; the check of an alert of T1 raises at
\* --- every attempt and the check of the alert of T2 succeeds.  The clock
\* --- advances, and the loop, being a task of the event loop, is resumed
\* --- whenever it can go on.
StarveTimes == {0, 2, 32, 62, 92}
StarveSizes == {batch_limit - 1, batch_limit}
OtherEvent == CHOOSE e \in BuyEvents({"W2"}, {"T2"}, {10}, {5}, {<<200, 1000>>}, {2}, {0}) : TRUE

\* the database d after the buy ev and a call of create_alert on its signal
AfterBuyAndAlert(d, ev) ==
    CHOOSE db \in
      {[wallets |-> r.wallets, tokens |-> r.tokens, trades |-> r.trades,
        clusters |-> r.clusters,
        alerts |-> d.alerts \o create_alert(r.wallets, r.signals[1], TRUE, 0)] :
          r \in {process_buy_event(d.wallets, d.tokens, d.trades, d.clusters,
                                   0, ev)}} : TRUE

\* the database of n alerts of T1 followed by the alert of the buy of T2
DatabaseWithFailing(n) ==
    CHOOSE db \in {AfterBuyAndAlert(d, OtherEvent) : d \in {DatabaseWithAlerts(n)}} :
        TRUE

InitStarve ==
    \E n \in StarveSizes : \E db \in {DatabaseWithFailing(n)} : Startup(TRUE, db)

\* the tokens of the alerts the runs in progress are about to check
HeadTokens ==
    {alerts[Head(loops.runs[i].todo)].token_id :
        i \in {j \in DOMAIN loops.runs : loops.runs[j].todo # << >>}}

CheckFails == HeadTokens = {"T1"} /\ OutcomeRunStep({QuoteFailed})
CheckSucceeds == HeadTokens = {"T2"} /\ OutcomeRunStep({Quote(240, 0)})

\* the clock moves to the next instant once the loop has nothing to do
LoopIdle ==
    /\ loops.runs = << >>
    /\ loops.outcome.pc = "sleeping" /\ now < loops.outcome.wake
NextInstant ==
    IF LoopIdle /\ \E t \in StarveTimes : t > now
    THEN {SetMin({t \in StarveTimes : t > now})} ELSE {}

NextStarve ==
    \/ Tick(StarveTimes \cap NextInstant)
    \/ OutcomeLoopCall
    \/ CheckFails
    \/ CheckSucceeds
    \/ OutcomeRunReturn

SpecStarve ==
    /\ InitStarve /\ [][NextStarve]_vars
    /\ WF_vars(Tick(StarveTimes \cap NextInstant))
    /\ WF_vars(OutcomeLoopCall)
    /\ WF_vars(CheckFails)
    /\ WF_vars(CheckSucceeds)
    /\ WF_vars(OutcomeRunReturn)


\* --- SpecNoPrice: at minute 0 the buy of SpecOutcome, recorded with the
\* --- market cap of T1, and buys of T2 by both wallets, recorded without a
\* --- market cap, which make a cluster; alerts of their signals; at minute
\* --- 30 checks of the alerts, the metadata service giving a price or, its
\* --- price lookup having failed, its default of 0, with or without the
\* --- supply.
NoPriceTimes == {0, 30}
NoPriceEvents(t) ==
    IF t = 0
    THEN OutcomeEvents
         \cup BuyEvents({"W1"}, {"T2"}, {5}, {5}, {<<None, None>>}, {11}, {0})
         \cup BuyEvents({"W2"}, {"T2"}, {5}, {5}, {<<None, None>>}, {12}, {0})
    ELSE {}
NoPriceQuotes == {Quote(0, 0), Quote(0, 1000), Quote(100, 0)}

NextNoPrice ==
    \/ Tick(NoPriceTimes)
    \/ ProcessBuyEvent(NoPriceEvents(now))
    \/ CreateAlert(AtStart)
    \/ CheckAlertOutcome(At(30, NoPriceQuotes))

SpecNoPrice == Init /\ [][NextNoPrice]_vars


\* --- SpecSpike: a buy of minute 0 of 1 SOL on a token of market cap 5 SOL,
\* --- which is a volume spike and a high-conviction buy, or on one of
\* --- market cap 20 SOL, which is no spike; alerts of the signals; and, then
\* --- and an hour later, backtests with the win-rate filter of
\* --- run_quick_backtest, with a filter of 1 and with none.
SpikeTimes == {0, 60}
SpikeEvents(t) ==
    IF t = 0
    THEN BuyEvents({"W1"}, {"T1"}, {10}, {5}, {<<50, 1000>>, <<200, 1000>>}, {1}, {0})
    ELSE {}
SpikeConfigs(t) ==
    {quick_config(t, 7),
     [quick_config(t, 7) EXCEPT !.min_wallet_win_rate = 1],
     [quick_config(t, 7) EXCEPT !.min_wallet_win_rate = 0]}

NextSpike ==
    \/ Tick(SpikeTimes)
    \/ ProcessBuyEvent(SpikeEvents(now))
    \/ CreateAlert(AlertsAtStart)
    \/ RunBacktest(SpikeConfigs(now), BacktestDraws)

SpecSpike == Init /\ [][NextSpike]_vars


\* --- SpecPayload: deliveries of payloads of two and three transactions,
\* --- each a buy of T1 by one of the stored wallets, a buy by an unknown
\* --- wallet, a transfer, or a swap whose amount is null, which the parser
\* --- raises on; the processing of the first or the second may raise.
PayloadTimes == {0, 1}
NullAmount ==
    [type |-> "SWAP", signature |-> 9, timestamp |-> None, feePayer |-> "W1",
     native_out |-> None, token_in |-> 5, mint |-> "T1"]
PayloadTransactions ==
    Swaps({"W1"}, {"T1"}, {5}, {5}, {1}, {None})
    \cup Swaps({"W2"}, {"T1"}, {5}, {5}, {2}, {None})
    \cup Swaps({UnknownWallet}, {"T1"}, {5}, {5}, {3}, {None})
    \cup {NullAmount}
Payloads ==
    {<<a, b>> : a \in PayloadTransactions,
                b \in {NullAmount} \cup Swaps({"W2"}, {"T1"}, {5}, {5}, {2}, {None})}
    \cup {<<a, b, c>> : a \in {NullAmount},
                        b \in Swaps(StoredWallets, {"T1"}, {5}, {5}, {1}, {None}),
                        c \in Swaps({"W2"}, {"T1"}, {5}, {5}, {2}, {None})}

NextPayload ==
    \/ Tick(PayloadTimes)
    \/ HandleWebhookPayload(Payloads)

SpecPayload == Init /\ [][NextPayload]_vars


\* The rate limiter alone: limiters of one or two requests per window of one
\* or two minutes, two clients, calls at any of four minutes, cleanup at any
\* time between them.
LimiterTimes == 0..3
LimiterClients == {"ip1", "ip2"}
LimiterLimits == {1, 2}
LimiterWindows == {60, 120}

InitLimiter ==
    \E max_requests \in LimiterLimits : \E window_seconds \in LimiterWindows :
        StartupWith(TRUE, NewDatabase, RateLimiter(max_requests, window_seconds))

NextLimiter ==
    \/ Tick(LimiterTimes)
    \/ IsAllowed(LimiterClients)
    \/ Cleanup

SpecLimiter == InitLimiter /\ [][NextLimiter]_vars

\* ---------------------------------------------------------------- claims
TradesWithSignature(trs, g) == {i \in DOMAIN trs : trs[i].tx_signature = g}

\* the signal types the last call returned
LastTypes == SignalTypesOf(last.signals)

\* the Alert rows the last call added
NewAlerts == {Len(alerts) - last.newAlerts + i : i \in 1..last.newAlerts}

\* the recorded buys on token tok of at least cluster_min_sol whose block_time
\* is within cluster_window_minutes before t
QualifyingBuys(tok, t) ==
    {i \in DOMAIN trades : /\ trades[i].token_id = tok
                           /\ trades[i].trade_type = "BUY"
                           /\ trades[i].sol_amount >= cluster_min_sol
                           /\ trades[i].block_time >= t - cluster_window_minutes}

Buyers(I) == {trades[i].wallet_id : i \in I}

RECURSIVE SolOf(_)
SolOf(I) ==
    IF I = {} THEN 0
    ELSE LET i == CHOOSE x \in I : TRUE
         IN  trades[i].sol_amount + SolOf(I \ {i})

\* the buy volume on token tok over the five minutes before t
TrailingVolume(tok, t) ==
    SolOf({i \in DOMAIN trades : /\ trades[i].token_id = tok
                                 /\ trades[i].trade_type = "BUY"
                                 /\ trades[i].block_time >= t - volume_window_minutes})

\* v is token_amount / total_supply * 100 (in hundredths of a percent) when
\* the total supply is given and positive, and 0 otherwise
IsSupplyPct(v, token_amount, total_supply) ==
    IF total_supply # None /\ total_supply > 0
    THEN v * total_supply = token_amount * 100 * 100
    ELSE v = 0

HighConvictionCondition ==
    /\ last.ev.sol_amount >= high_conviction_min_sol
    /\ last.supply_pct >= high_conviction_min_supply_pct

ClusterCondition ==
    Cardinality(Buyers(QualifyingBuys(last.ev.token_ca, last.at))) >= cluster_min_wallets

VolumeCondition ==
    LET tok == tokens[last.ev.token_ca]
    IN  /\ last.at - tok.launched_at <= new_token_max_age_minutes
        /\ tok.market_cap_sol # None
        /\ tok.market_cap_sol > 0
        /\ TrailingVolume(last.ev.token_ca, last.at) * 100
             >= volume_spike_threshold * tok.market_cap_sol

\* C1: whenever process_buy_event is called with a tx_signature that an
\* earlier call recorded, exactly one Trade holds that signature and the
\* signal types the call triggers are among those the recording call
\* triggered.
C1_SecondSubsetOfFirst ==
    (last.called /\ last.known /\ last.dup)
    => /\ Cardinality(TradesWithSignature(trades, last.ev.tx_signature)) = 1
       /\ LastTypes \subseteq first[last.ev.tx_signature]

\* What holds of the second call: a call that repeats the call before it,
\* with the same arguments and no other call in between, records no second
\* Trade and triggers a subset of the types the first call triggered.
RepeatedCallSubset ==
    [][last'.repeat
       => /\ SignalTypesOf(last'.signals) \subseteq SignalTypesOf(last.signals)
          /\ Cardinality(TradesWithSignature(trades', last'.ev.tx_signature)) = 1]_vars

\* The same fails of a second delivery of the very transaction that was
\* recorded (same wallet, token, amount and block_time) once another call
\* came in between.
SameDeliverySubset ==
    (/\ last.called /\ last.known /\ last.dup
     /\ \A i \in TradesWithSignature(trades, last.ev.tx_signature) :
          /\ trades[i].wallet_id = last.ev.wallet_address
          /\ trades[i].token_id = last.ev.token_ca
          /\ trades[i].sol_amount = last.ev.sol_amount
          /\ trades[i].token_amount = last.ev.token_amount
          /\ trades[i].mcap_at_trade = last.ev.market_cap)
    => LastTypes \subseteq first[last.ev.tx_signature]

\* C2: a re-submitted buy event (its tx_signature is already recorded) adds
\* no ClusterEvent row and no Alert row.
C2_ResubmissionAddsNoRows ==
    (last.called /\ last.dup) => (last.newClusters = 0 /\ last.newAlerts = 0)

\* C3: process_buy_event for a wallet address that is not in the wallet store
\* returns an empty list, does not raise, and leaves the Trade, Token,
\* ClusterEvent and Alert stores (and the wallets) unchanged.
C3_UnknownWalletNoOp ==
    [][(/\ last'.called /\ last'.op = "process_buy_event"
        /\ last'.ev.wallet_address \notin DOMAIN wallets)
       => /\ last'.signals = <<>>
          /\ ~last'.raised
          /\ UNCHANGED <<limiter, calls, trades, tokens, clusters, alerts, wallets>>]_vars

C3_Witness ==
    /\ last.called /\ last.op = "process_buy_event"
    /\ last.ev.wallet_address \notin DOMAIN wallets
    /\ last.signals = <<>>
    /\ trades # <<>> /\ clusters # <<>> /\ alerts # <<>>

\* C4: when the qualifying buys on the token inside the window at the time of
\* the call come from at most one wallet, however many they are, the call
\* returns no CLUSTER_BUY signal, records no ClusterEvent and creates no
\* cluster alert.
C4_SingleWalletNoCluster ==
    (/\ last.called /\ last.known
     /\ Cardinality(Buyers(QualifyingBuys(last.ev.token_ca, last.at))) <= 1)
    => /\ CLUSTER_BUY \notin LastTypes
       /\ last.newClusters = 0
       /\ \A k \in NewAlerts : alerts[k].alert_type # CLUSTER_BUY

C4_Witness ==
    /\ last.called /\ last.known /\ ~last.dup
    /\ Cardinality(QualifyingBuys(last.ev.token_ca, last.at)) >= 2
    /\ Cardinality(Buyers(QualifyingBuys(last.ev.token_ca, last.at))) = 1
    /\ CLUSTER_BUY \notin LastTypes /\ clusters = <<>>

\* two wallets bought the token in the window, one of them under the minimum
OneQualifyingOfTwoBuyers ==
    /\ last.called /\ last.known /\ ~last.dup
    /\ Cardinality(Buyers(QualifyingBuys(last.ev.token_ca, last.at))) = 1
    /\ \E i \in DOMAIN trades : /\ trades[i].token_id = last.ev.token_ca
                                /\ trades[i].wallet_id # last.ev.wallet_address
                                /\ trades[i].block_time >= last.at - cluster_window_minutes
    /\ CLUSTER_BUY \notin LastTypes

\* C5: when the buy being recorded is of at least cluster_min_sol and another
\* tracked wallet has a recorded buy of at least cluster_min_sol on the same
\* token whose block_time is at most cluster_window_minutes earlier, the call
\* returns a CLUSTER_BUY signal, however late the event is processed.
C5_ClusterWhateverTheDelay ==
    (/\ last.called /\ last.known /\ ~last.dup
     /\ last.ev.sol_amount >= cluster_min_sol
     /\ \E i \in DOMAIN trades :
            /\ trades[i].token_id = last.ev.token_ca
            /\ trades[i].wallet_id # last.ev.wallet_address
            /\ trades[i].wallet_id \in tracked
            /\ trades[i].sol_amount >= cluster_min_sol
            /\ trades[i].block_time <= last.ev.block_time
            /\ last.ev.block_time - trades[i].block_time <= cluster_window_minutes)
    => CLUSTER_BUY \in LastTypes

\* What holds of the cluster window: the signal is returned when the earlier
\* buy's block_time is at most cluster_window_minutes before the time of the
\* call.
ClusterWhenProcessedInWindow ==
    (/\ last.called /\ last.known /\ ~last.dup
     /\ last.ev.sol_amount >= cluster_min_sol
     /\ last.ev.block_time >= last.at - cluster_window_minutes
     /\ \E i \in DOMAIN trades :
            /\ trades[i].token_id = last.ev.token_ca
            /\ trades[i].wallet_id # last.ev.wallet_address
            /\ trades[i].sol_amount >= cluster_min_sol
            /\ trades[i].block_time >= last.at - cluster_window_minutes)
    => CLUSTER_BUY \in LastTypes

C7_SupplyPercentage ==
    (last.called /\ last.known)
    => /\ IsSupplyPct(last.supply_pct, last.ev.token_amount, last.ev.total_supply)
       /\ ~last.dup =>
            /\ TradesWithSignature(trades, last.ev.tx_signature) # {}
            /\ \A i \in TradesWithSignature(trades, last.ev.tx_signature) :
                 trades[i].supply_percentage = last.supply_pct
       /\ \A k \in DOMAIN last.signals :
            last.signals[k].signal_type = HIGH_CONVICTION
            => /\ last.signals[k].details.supply_pct = last.supply_pct
               /\ last.signals[k].max_supply_pct = last.supply_pct

C7_Witness ==
    /\ last.called /\ last.known /\ ~last.dup
    /\ last.ev.total_supply = 1000 /\ last.ev.token_amount = 6
    /\ last.supply_pct = 60
    /\ HIGH_CONVICTION \in LastTypes
    /\ \E i \in DOMAIN trades : trades[i].supply_percentage = 60

\* C8: a processed buy never raises; it returns a VOLUME_SPIKE signal only if
\* the token's age is at most new_token_max_age_minutes, its market cap is
\* known and positive and the buy volume of the last five minutes is at least
\* volume_spike_threshold of the market cap; with the market cap unknown or
\* not positive it returns none.
C8_VolumeSpikeOnlyIf ==
    (last.called /\ last.known)
    => /\ ~last.raised
       /\ VOLUME_SPIKE \in LastTypes => VolumeCondition
       /\ (\/ tokens[last.ev.token_ca].market_cap_sol = None
           \/ tokens[last.ev.token_ca].market_cap_sol <= 0)
          => VOLUME_SPIKE \notin LastTypes

C8_Witness ==
    /\ last.called /\ last.known
    /\ VOLUME_SPIKE \in LastTypes
    /\ last.at - tokens[last.ev.token_ca].launched_at = new_token_max_age_minutes
    /\ TrailingVolume(last.ev.token_ca, last.at) * 100
         = volume_spike_threshold * tokens[last.ev.token_ca].market_cap_sol

\* the market cap is zero or unknown and the call returns normally
VolumeNoMarketCap ==
    /\ last.called /\ last.known /\ ~last.raised
    /\ tokens[last.ev.token_ca].market_cap_sol \in {None, 0}
    /\ TrailingVolume(last.ev.token_ca, last.at) > 0

\* the volume of the window is positive and under the threshold
VolumeUnderThreshold ==
    /\ last.called /\ last.known
    /\ last.at - tokens[last.ev.token_ca].launched_at <= new_token_max_age_minutes
    /\ tokens[last.ev.token_ca].market_cap_sol > 0
    /\ TrailingVolume(last.ev.token_ca, last.at) > 0
    /\ TrailingVolume(last.ev.token_ca, last.at) * 100
         < volume_spike_threshold * tokens[last.ev.token_ca].market_cap_sol
    /\ VOLUME_SPIKE \notin LastTypes

\* the volume is enough and the token too old
VolumeTooOld ==
    /\ last.called /\ last.known
    /\ last.at - tokens[last.ev.token_ca].launched_at > new_token_max_age_minutes
    /\ tokens[last.ev.token_ca].market_cap_sol > 0
    /\ TrailingVolume(last.ev.token_ca, last.at) * 100
         >= volume_spike_threshold * tokens[last.ev.token_ca].market_cap_sol
    /\ VOLUME_SPIKE \notin LastTypes

Rank(type) ==
    CASE type = HIGH_CONVICTION -> 1
      [] type = CLUSTER_BUY -> 2
      [] type = VOLUME_SPIKE -> 3

\* C9: the list a processed buy returns holds triggered signals only, in the
\* order HIGH_CONVICTION, CLUSTER_BUY, VOLUME_SPIKE with at most one of each,
\* and each type is in it exactly when its own condition holds, whatever the
\* other two.
C9_IndependentInOrder ==
    last.called
    => /\ \A i \in DOMAIN last.signals :
            /\ last.signals[i].triggered
            /\ last.signals[i].signal_type \in SignalTypes
       /\ \A i, j \in DOMAIN last.signals :
            i < j => Rank(last.signals[i].signal_type) < Rank(last.signals[j].signal_type)
       /\ last.known =>
            /\ HIGH_CONVICTION \in LastTypes <=> HighConvictionCondition
            /\ CLUSTER_BUY \in LastTypes <=> ClusterCondition
            /\ VOLUME_SPIKE \in LastTypes <=> VolumeCondition

C9_Witness ==
    /\ last.called /\ last.known
    /\ Len(last.signals) = 3
    /\ LastTypes = SignalTypes

\* each of the other subsets of the three types as the result of a call
Returned(S) == last.called /\ last.known /\ LastTypes = S
ReturnedNone == Returned({})
ReturnedHC == Returned({HIGH_CONVICTION})
ReturnedCL == Returned({CLUSTER_BUY})
ReturnedVS == Returned({VOLUME_SPIKE})
ReturnedHCCL == Returned({HIGH_CONVICTION, CLUSTER_BUY})
ReturnedHCVS == Returned({HIGH_CONVICTION, VOLUME_SPIKE})
ReturnedCLVS == Returned({CLUSTER_BUY, VOLUME_SPIKE})

Did(op) == out'.n # out.n /\ out'.op = op

\* a is the Alert row that create_alert makes of the signal at time t
IsSnapshot(a, signal, t) ==
    /\ a.token_id = signal.token
    /\ a.alert_type = signal.signal_type
    /\ a.total_sol_volume = signal.total_sol
    /\ a.wallet_count = Len(signal.wallets)
    /\ a.max_supply_pct = signal.max_supply_pct
    /\ a.rug_check = IF signal.rug_checked
                     THEN <<[passed |-> signal.rug_passed,
                             risk_score |-> signal.rug_risk_score,
                             warnings |-> signal.rug_warnings]>>
                     ELSE <<>>
    /\ ~a.is_sent /\ a.sent_at = None /\ a.created_at = t
    /\ a.outcome_pnl = <<>> /\ a.outcome_checked_at = None

\* C11: create_alert returns None and persists nothing exactly when
\* skip_rug_failed is true and the signal has rug_checked true and rug_passed
\* false; in every other case it appends one Alert row, the snapshot of the
\* signal, and returns it.  The Trade and ClusterEvent rows stay as they are.
C11_SuppressedExactlyWhenRugFailed ==
    [][Did("create_alert")
       => /\ IF /\ out'.skip
                /\ held[out'.arg].rug_checked
                /\ ~held[out'.arg].rug_passed
             THEN out'.returned = <<>> /\ alerts' = alerts
             ELSE /\ Len(alerts') = Len(alerts) + 1
                  /\ SubSeq(alerts', 1, Len(alerts)) = alerts
                  /\ out'.returned = <<alerts'[Len(alerts')]>>
                  /\ IsSnapshot(alerts'[Len(alerts')], held[out'.arg], now)
          /\ UNCHANGED <<limiter, calls, trades, clusters>>]_vars

\* a cluster signal that failed the risk check is suppressed, its trades and
\* its ClusterEvent recorded
C11_Witness ==
    /\ out.op = "create_alert" /\ out.skip /\ out.returned = <<>>
    /\ held[out.arg].signal_type = CLUSTER_BUY
    /\ held[out.arg].rug_checked /\ ~held[out.arg].rug_passed
    /\ Len(trades) = 2 /\ clusters # <<>>

\* the same signal with suppression off
AlertOfRugFailedUnsuppressed ==
    /\ out.op = "create_alert" /\ ~out.skip /\ out.returned # <<>>
    /\ held[out.arg].rug_checked /\ ~held[out.arg].rug_passed
    /\ alerts[Len(alerts)].rug_check # <<>>

\* a signal that passed the risk check, and one that was never checked
AlertOfRugPassed ==
    /\ out.op = "create_alert" /\ out.skip /\ out.returned # <<>>
    /\ held[out.arg].rug_checked /\ held[out.arg].rug_passed

AlertOfUnchecked ==
    /\ out.op = "create_alert" /\ out.skip /\ out.returned # <<>>
    /\ ~held[out.arg].rug_checked

\* the rug fields of a signal as the detection built it
Unenriched(signal) ==
    /\ ~signal.rug_checked /\ signal.rug_passed
    /\ signal.rug_risk_score = 0 /\ signal.rug_warnings = <<>>

\* C12: enrich_and_validate_signal always returns, and returns the signal it
\* was given, still triggered and still held by its caller; when the metadata
\* fetch or the risk check fails it returns the signal as it was, so a signal
\* that came from the detection keeps rug_checked false and rug_passed,
\* rug_risk_score and rug_warnings at their initial values, and the
\* create_alert that follows persists an alert for it.
C12_FailedEnrichmentPassesSignalThrough ==
    /\ [][Did("enrich_and_validate_signal")
          => /\ DOMAIN held' = DOMAIN held
             /\ \A i \in DOMAIN held : i # out'.arg => held'[i] = held[i]
             /\ held'[out'.arg].triggered
             /\ held'[out'.arg].signal_type = held[out'.arg].signal_type
             /\ out'.failure # "none"
                => /\ held'[out'.arg] = held[out'.arg]
                   /\ Unenriched(held[out'.arg]) => Unenriched(held'[out'.arg])
             /\ UNCHANGED <<limiter, calls, trades, clusters, alerts>>]_vars
    /\ [][(/\ Did("create_alert")
           /\ out.op = "enrich_and_validate_signal" /\ out.arg = out'.arg
           /\ out.failure # "none" /\ out.unenriched)
          => /\ Len(alerts') = Len(alerts) + 1
             /\ alerts'[Len(alerts')].alert_type = held[out'.arg].signal_type
             /\ alerts'[Len(alerts')].rug_check = <<>>]_vars

\* an alert made, with suppression on, of a signal whose risk check raised
C12_Witness ==
    /\ out.op = "create_alert" /\ out.skip /\ out.returned # <<>>
    /\ out.prev.op = "enrich_and_validate_signal" /\ out.prev.arg = out.arg
    /\ out.prev.failure = "rug_check" /\ out.prev.unenriched
    /\ Unenriched(held[out.arg])
    /\ alerts[Len(alerts)].rug_check = <<>>

\* the same after a metadata fetch that raised: the token is as it was
MetadataFailureLeavesToken ==
    /\ out.op = "enrich_and_validate_signal" /\ out.failure = "metadata"
    /\ out.unenriched /\ Unenriched(held[out.arg])
    /\ tokens[held[out.arg].token].market_cap_sol = None

\* a risk check that raised after the metadata was stored
RugCheckFailureAfterMetadata ==
    /\ out.op = "enrich_and_validate_signal" /\ out.failure = "rug_check"
    /\ out.unenriched /\ Unenriched(held[out.arg])
    /\ tokens[held[out.arg].token].market_cap_sol = 200

\* a failure on a signal that an earlier enrichment found unsafe
FailureAfterRugFailed ==
    /\ out.op = "enrich_and_validate_signal" /\ out.failure # "none"
    /\ ~out.unenriched
    /\ held[out.arg].rug_checked /\ ~held[out.arg].rug_passed

\* the calls of the sink for the Alert row k
SinkCalls(k) == {i \in DOMAIN sink : sink[i].alert = k}

\* C13: every Alert with is_sent true was delivered by a successful call of
\* the sink, and an alert whose delivery failed, or whose sink was not
\* initialised, has is_sent false.
C13_SentOnlyAfterDelivery ==
    /\ \A k \in DOMAIN alerts :
          alerts[k].is_sent => \E i \in SinkCalls(k) : sink[i].outcome = "delivered"
    /\ \A i \in DOMAIN sink :
          sink[i].outcome \in {"failed", "uninitialised"}
          => ~alerts[sink[i].alert].is_sent

\* What holds of the sent flag: an Alert is marked sent exactly when it was
\* passed to send_alert, whatever became of the message.
SentIffPassedToSink ==
    \A k \in DOMAIN alerts : alerts[k].is_sent <=> SinkCalls(k) # {}

\* an alert marked sent whose message send_message refused
MarkedSentAfterFailure ==
    \E i \in DOMAIN sink : sink[i].outcome = "failed" /\ alerts[sink[i].alert].is_sent

\* an alert marked sent by a bot that was not initialised
MarkedSentUninitialised ==
    \E i \in DOMAIN sink :
        sink[i].outcome = "uninitialised" /\ alerts[sink[i].alert].is_sent

\* an alert left unsent for want of a bot
UnsentWithoutBot ==
    bot = "none" /\ alerts # <<>> /\ \A k \in DOMAIN alerts : ~alerts[k].is_sent

\* C14: no step takes is_sent of an Alert from true back to false; sent_at
\* is set exactly when is_sent is true; and over any sequence of webhook
\* requests, repeated deliveries included, no Alert row is passed to the
\* sink more than once.
C14_SentOnceAndOneWay ==
    /\ [](\A k \in DOMAIN alerts : alerts[k].is_sent <=> alerts[k].sent_at # None)
    /\ [](\A k \in DOMAIN alerts : Cardinality(SinkCalls(k)) <= 1)
    /\ [][\A k \in DOMAIN alerts :
            alerts[k].is_sent => (k \in DOMAIN alerts' /\ alerts'[k].is_sent)]_vars

\* a repeated delivery made a second alert; each of the two rows went to the
\* sink once and is marked sent
C14_Witness ==
    /\ last.op = "handle_webhook" /\ last.dup /\ last.newAlerts = 1
    /\ Len(alerts) = 2 /\ Len(sink) = 2
    /\ \A k \in DOMAIN alerts :
          /\ alerts[k].is_sent /\ alerts[k].sent_at = now
          /\ Cardinality(SinkCalls(k)) = 1

\* the AlertOutcome of the last call of check_alert_outcome, when it returned
Checked == out.op = "check_alert_outcome" /\ out.results # <<>>
Outcome == out.results[1]

OutcomeAt(age, ret, status) ==
    /\ Checked /\ Outcome.alert_age_mins = age
    /\ Outcome.return_pct = ret /\ Outcome.status = status

LoserJustOverRug == OutcomeAt(30, -79, LOSER)
LoserAtThreshold == OutcomeAt(30, -30, LOSER)
PendingJustOverLoss == OutcomeAt(30, -29, PENDING)
PendingJustUnderWin == OutcomeAt(30, 19, PENDING)
WinnerAtThreshold == OutcomeAt(30, 20, WINNER)
YoungIsPending == OutcomeAt(29, -80, PENDING)

\* C16: an Alert younger than 30 minutes has outcome_pnl and
\* outcome_checked_at both null, whichever outcome operation was applied to
\* it.
C16_YoungAlertHasNoOutcome ==
    \A k \in DOMAIN alerts :
        now - alerts[k].created_at < 30
        => alerts[k].outcome_pnl = <<>> /\ alerts[k].outcome_checked_at = None

\* What holds of check_alert_outcome: whenever it returns it has written the
\* return and the time of the check to the alert, whatever the status.
OutcomeWrittenOnEveryReturn ==
    Checked => /\ alerts[out.arg].outcome_pnl = <<Outcome.return_pct>>
               /\ alerts[out.arg].outcome_checked_at = out.at

\* a young alert, PENDING by its age, with its outcome fields written
YoungAlertWritten ==
    /\ Checked /\ Outcome.alert_age_mins < 30 /\ Outcome.status = PENDING
    /\ alerts[out.arg].outcome_pnl # <<>>
    /\ alerts[out.arg].outcome_checked_at = now

Terminal == {WINNER, LOSER, RUGGED}

\* the status that the persisted outcome_pnl of an alert stands for
StatusOfPnl(alert) ==
    IF alert.outcome_pnl = <<>> THEN PENDING
    ELSE IF alert.outcome_pnl[1] <= -80 THEN RUGGED
    ELSE IF alert.outcome_pnl[1] <= -30 THEN LOSER
    ELSE IF alert.outcome_pnl[1] >= 20 THEN WINNER
    ELSE PENDING

\* C17: once an outcome check has returned WINNER, LOSER or RUGGED for an
\* alert, no later check returns another status for it, and the status its
\* outcome_pnl stands for does not change either.
C17_TerminalOutcomesStay ==
    [][/\ \A k \in DOMAIN outcomes :
             outcomes[k] \in Terminal => outcomes'[k] = outcomes[k]
       /\ \A k \in DOMAIN alerts :
             (k \in DOMAIN outcomes /\ outcomes[k] \in Terminal
              /\ StatusOfPnl(alerts[k]) \in Terminal)
             => StatusOfPnl(alerts'[k]) = StatusOfPnl(alerts[k])]_vars

\* What holds of a run of check_pending_alerts: an alert that a check
\* classified is left alone until recheck_minutes have passed since that
\* check, whatever its status.
ClassifiedLeftAloneUntilRecheck ==
    [][Did("check_pending_alerts")
       => \A k \in DOMAIN alerts :
            (alerts[k].outcome_checked_at # None
             /\ now - alerts[k].outcome_checked_at < recheck_minutes)
            => /\ alerts'[k] = alerts[k]
               /\ k \in DOMAIN outcomes => outcomes'[k] = outcomes[k]]_vars

\* a periodic run that turned a RUGGED alert into a WINNER, its token still
\* flagged
RuggedTurnedWinnerByRecheck ==
    /\ out.op = "check_pending_alerts"
    /\ \E k \in DOMAIN out.was :
          /\ out.was[k] = RUGGED /\ outcomes[k] = WINNER
          /\ alerts[k].outcome_pnl = <<20>>
          /\ tokens[alerts[k].token_id].is_rugged

\* C18: when check_alert_outcome classifies an alert as RUGGED, the alert's
\* token has is_rugged true afterwards; for every other status, and when the
\* call raises, it leaves is_rugged of every token as it was.
C18_RuggedFlagsToken ==
    [][Did("check_alert_outcome")
       => IF out'.results # <<>> /\ out'.results[1].status = RUGGED
          THEN /\ out'.results[1].alert_age_mins >= 30
               /\ out'.results[1].return_pct <= -80
               /\ tokens'[alerts[out'.arg].token_id].is_rugged
          ELSE \A c \in DOMAIN tokens : tokens'[c].is_rugged = tokens[c].is_rugged]_vars

\* the scenario of the spec at the boundary: an alert of 30 minutes at -80%
C18_Witness ==
    /\ Checked /\ Outcome.status = RUGGED
    /\ Outcome.alert_age_mins = 30 /\ Outcome.return_pct = -80
    /\ tokens[Outcome.token_ca].is_rugged

\* a LOSER just over the rug threshold, and a young alert at -80%, on a token
\* that is not flagged
UnflaggedLoser ==
    /\ Checked /\ Outcome.status = LOSER /\ Outcome.return_pct = -79
    /\ ~tokens[Outcome.token_ca].is_rugged

UnflaggedYoung ==
    /\ Checked /\ Outcome.status = PENDING /\ Outcome.return_pct = -80
    /\ ~tokens[Outcome.token_ca].is_rugged

FlaggedBoughtAgain ==
    /\ last.called /\ last.known /\ last.at = 30
    /\ tokens[last.ev.token_ca].is_rugged

FlaggedEnriched ==
    /\ out.op = "enrich_and_validate_signal" /\ out.failure = "none"
    /\ tokens[held[out.arg].token].is_rugged
    /\ tokens[held[out.arg].token].market_cap_sol = 300

\* the alerts that a run of check_pending_alerts at time t has to check
Due(t) ==
    {k \in DOMAIN alerts :
        /\ t - alerts[k].created_at >= 30
        /\ \/ alerts[k].outcome_checked_at = None
           \/ t - alerts[k].outcome_checked_at >= 240}

SelectedBy(log) == {log.selected[i] : i \in DOMAIN log.selected}

RecheckedAfterFourHours ==
    /\ out.op = "check_pending_alerts" /\ out.at = 270
    /\ \E k \in SelectedBy(out) :
          k \in DOMAIN out.was /\ alerts[k].outcome_checked_at = 270

\* a run that leaves out an alert checked less than four hours before, and
\* one that finds no alert old enough
RecentlyCheckedLeftOut ==
    /\ out.op = "check_pending_alerts" /\ out.at = 30 /\ out.selected # <<>>
    /\ \E k \in DOMAIN alerts :
          k \notin SelectedBy(out) /\ alerts[k].outcome_checked_at = 30

YoungLeftOut ==
    /\ out.op = "check_pending_alerts" /\ out.at = 29
    /\ alerts # <<>> /\ out.selected = <<>>

\* C26: a Trade is immutable after creation: every stored Trade row is the
\* same after any step, a call that submits its tx_signature again with
\* another wallet, token, sol_amount, token_amount, block_time or market cap
\* included, and the position of the row does not change.
C26_TradeImmutable ==
    [][/\ Len(trades') >= Len(trades)
       /\ \A i \in DOMAIN trades : trades'[i] = trades[i]]_vars

\* the stored Trade and the event of the last call have the same signature
\* and differ in every other field
C26_Witness ==
    /\ last.called /\ last.known /\ last.dup
    /\ Len(trades) = 1
    /\ trades[1].tx_signature = last.ev.tx_signature
    /\ trades[1].wallet_id # last.ev.wallet_address
    /\ trades[1].token_id # last.ev.token_ca
    /\ trades[1].sol_amount # last.ev.sol_amount
    /\ trades[1].token_amount # last.ev.token_amount
    /\ trades[1].block_time # last.ev.block_time
    /\ trades[1].mcap_at_trade # last.ev.market_cap

\* an outcome check made while a Trade is stored
TradeKeptByOutcomeCheck ==
    /\ out.op = "check_alert_outcome" /\ out.results # <<>> /\ trades # <<>>

\* the Trade rows that qualify for the cluster of token c at time t, and the
\* wallets that made them
Qualifying(trs, c, t) ==
    {i \in DOMAIN trs :
        /\ trs[i].token_id = c /\ trs[i].trade_type = "BUY"
        /\ trs[i].block_time >= t - cluster_window_minutes
        /\ trs[i].sol_amount >= cluster_min_sol}

Participants(trs, c, t) == {trs[i].wallet_id : i \in Qualifying(trs, c, t)}

RECURSIVE SumOfSol(_, _)
SumOfSol(trs, S) ==
    IF S = {} THEN 0
    ELSE LET i == CHOOSE x \in S : TRUE
         IN  trs[i].sol_amount + SumOfSol(trs, S \ {i})

NewClusterBuyAlerts ==
    {k \in DOMAIN alerts' \ DOMAIN alerts : alerts'[k].alert_type = CLUSTER_BUY}

\* C29: alerts are de-duplicated per cluster: a call on a token whose
\* cluster is already recorded for the same set of participant wallets, and
\* that leaves this set as it is, adds no ClusterEvent and no CLUSTER_BUY
\* alert.
C29_OneAlertPerCluster ==
    [][\A c \in DOMAIN tokens :
          (/\ now' = now
           /\ Cardinality(Participants(trades, c, now)) >= cluster_min_wallets
           /\ Participants(trades', c, now) = Participants(trades, c, now)
           /\ \E i \in DOMAIN clusters :
                 /\ clusters[i].token_id = c
                 /\ clusters[i].wallet_addresses = Participants(trades, c, now)
                 /\ clusters[i].first_buy_at >= now - cluster_window_minutes)
          => /\ clusters' = clusters
             /\ \A k \in NewClusterBuyAlerts : alerts'[k].token_id # c]_vars

\* what the code does: each call that finds the condition met, a
\* re-submitted one included, adds one ClusterEvent and one CLUSTER_BUY alert
ClusterRecordedAtEachCall ==
    [][(last'.op = "handle_webhook" /\ last' # last /\ last'.called
        /\ CLUSTER_BUY \in SignalTypesOf(last'.signals))
       => /\ Len(clusters') = Len(clusters) + 1
          /\ Cardinality(NewClusterBuyAlerts) = 1]_vars

\* a re-submitted event after which the same cluster is stored twice, with
\* two CLUSTER_BUY alerts
ClusterStoredTwice ==
    /\ last.op = "handle_webhook" /\ last.dup
    /\ Len(clusters) = 2 /\ clusters[1] = clusters[2]
    /\ Cardinality({k \in DOMAIN alerts : alerts[k].alert_type = CLUSTER_BUY}) = 2

Scored(op) == IF Did(op) THEN DOMAIN out'.scores ELSE {}
ScoringSteps == {"calculate_score", "update_all_scores"}

NoTradeRecorded(a) == \A i \in DOMAIN trades : trades[i].wallet_id # a

PnlScoredWithoutTrades ==
    /\ out.op = "calculate_score" /\ out.arg = "W1"
    /\ NoTradeRecorded("W1") /\ wallets["W1"].pnl_total_sol = 500
    /\ out.scores["W1"].frequency_score = 0
    /\ out.scores["W1"].pnl_score = 750

\* a sum of components over 100 returned as 100
TotalCutAtHundred ==
    /\ out.op = "calculate_score" /\ out.arg = "W1"
    /\ out.scores["W1"].total_score > 10000
    /\ out.scores["W1"].score = 10000

\* C23: each of the six components is within its own weight: win rate in
\* [0,30], consistency in [0,20], frequency in [0,15], PnL in [0,15], early
\* entry in [0,10], rug avoidance in [0,10].
C23_ComponentsWithinWeights ==
    [][\A op \in ScoringSteps : \A a \in Scored(op) :
          LET s == out'.scores[a]
          IN  /\ s.win_rate_score >= 0 /\ s.win_rate_score <= WEIGHT_WIN_RATE
              /\ s.consistency_score >= 0 /\ s.consistency_score <= WEIGHT_CONSISTENCY
              /\ s.frequency_score >= 0 /\ s.frequency_score <= WEIGHT_FREQUENCY
              /\ s.pnl_score >= 0 /\ s.pnl_score <= WEIGHT_PNL
              /\ s.early_entry_score >= 0 /\ s.early_entry_score <= WEIGHT_EARLY_ENTRY
              /\ s.rug_avoidance_score >= 0
              /\ s.rug_avoidance_score <= WEIGHT_RUG_AVOIDANCE]_vars

\* what the code does: the five other components are within their weights,
\* and so is the win-rate score of a win rate up to 100
FiveComponentsWithinWeights ==
    [][\A op \in ScoringSteps : \A a \in Scored(op) :
          LET s == out'.scores[a]
          IN  /\ s.win_rate_score >= 0
              /\ wallets[a].win_rate <= 100 => s.win_rate_score <= WEIGHT_WIN_RATE
              /\ s.consistency_score >= 0 /\ s.consistency_score <= WEIGHT_CONSISTENCY
              /\ s.frequency_score >= 0 /\ s.frequency_score <= WEIGHT_FREQUENCY
              /\ s.pnl_score >= 0 /\ s.pnl_score <= WEIGHT_PNL
              /\ s.early_entry_score >= 0 /\ s.early_entry_score <= WEIGHT_EARLY_ENTRY
              /\ s.rug_avoidance_score >= 0
              /\ s.rug_avoidance_score <= WEIGHT_RUG_AVOIDANCE]_vars

\* a win rate of 150 scored 60 points
WinRateScoreOverWeight ==
    /\ out.op = "calculate_score" /\ out.arg = "W1"
    /\ wallets["W1"].win_rate = 150
    /\ out.scores["W1"].win_rate_score = 6000

\* the components at their bounds: eleven buys in a week and a pnl over 100
\* SOL; a skewed pnl per token; a pnl per token between even and skewed; more
\* trades on flagged tokens than tokens; three early buys of eleven
ComponentsAtFullWeight ==
    /\ out.op = "calculate_score" /\ out.arg = "W1"
    /\ out.scores["W1"].metrics.trades_7d > 10
    /\ out.scores["W1"].frequency_score = WEIGHT_FREQUENCY
    /\ wallets["W1"].pnl_total_sol = 2000
    /\ out.scores["W1"].pnl_score = WEIGHT_PNL

ConsistencyAtZero ==
    /\ out.op = "calculate_score" /\ out.arg = "W1"
    /\ out.scores["W1"].metrics.consistency_score = 0

ConsistencyBetween ==
    /\ out.op = "calculate_score" /\ out.arg = "W1"
    /\ out.scores["W1"].metrics.consistency_score \in 51..99

RugAvoidanceAtZero ==
    /\ out.op = "calculate_score" /\ out.arg = "W1"
    /\ out.scores["W1"].metrics.rugged_tokens > out.scores["W1"].metrics.tokens_traded
    /\ out.scores["W1"].rug_avoidance_score = 0

EarlyEntryBelowWeight ==
    /\ out.op = "calculate_score" /\ out.arg = "W1"
    /\ out.scores["W1"].early_entry_score \in 1..(WEIGHT_EARLY_ENTRY - 1)

\* C24: update_all_scores stores the recomputed score of every active
\* wallet whose scoring did not raise and leaves every other field and
\* every other wallet, the inactive ones and those whose scoring raised,
\* as they were; the count it returns is the number of wallets whose score
\* it recomputed.
C24_ActiveScoredFailuresSkipped ==
    [][Did("update_all_scores")
       => /\ DOMAIN wallets' = DOMAIN wallets
          /\ \A a \in DOMAIN wallets :
                IF wallets[a].is_active /\ a \notin out'.failed
                THEN /\ a \in DOMAIN out'.scores
                     /\ wallets'[a] = [wallets[a] EXCEPT
                                         !.conviction_score = out'.scores[a].score]
                ELSE wallets'[a] = wallets[a]
          /\ out'.failed \subseteq {a \in DOMAIN wallets : wallets[a].is_active}
          /\ out'.returned =
               <<Cardinality({a \in DOMAIN wallets :
                                wallets[a].is_active /\ a \notin out'.failed})>>]_vars

\* a run in which the scoring of the first wallet raised: its score is as
\* before, the second wallet has its new score, and the count is 1
C24_Witness ==
    /\ out.op = "update_all_scores" /\ out.failed = {"W1"}
    /\ wallets["W2"].is_active
    /\ wallets["W1"].conviction_score = 0
    /\ wallets["W2"].conviction_score = out.scores["W2"].score
    /\ wallets["W2"].conviction_score > 0
    /\ out.returned = <<1>>

\* a run that scored the first wallet and left the inactive second alone
InactiveNotScored ==
    /\ out.op = "update_all_scores" /\ out.failed = {}
    /\ ~wallets["W2"].is_active /\ wallets["W2"].conviction_score = 0
    /\ wallets["W1"].conviction_score > 0
    /\ out.returned = <<1>>

\* a run that scored both wallets
BothScored ==
    /\ out.op = "update_all_scores" /\ out.returned = <<2>>
    /\ wallets["W1"].conviction_score > 0 /\ wallets["W2"].conviction_score > 0

\* C25: runs of the same periodic cycle never overlap: at most one run of
\* check_pending_alerts is in progress at any moment, and while it is the
\* one outcome_check_loop is awaiting it; a run of update_all_scores is one
\* step of the one conviction_update_loop, made when its sleep is over and
\* followed by its sleep of six hours, so no second run starts within it.
C25_RunsNeverOverlap ==
    /\ [](/\ Len(loops.runs) <= 1
          /\ Len(loops.runs) = 1 <=> loops.outcome.pc = "awaiting"
          /\ loops.conviction.pc = "sleeping")
    /\ [][/\ Len(loops'.runs) > Len(loops.runs)
             => /\ loops.runs = << >>
                /\ loops.outcome.pc = "sleeping" /\ now >= loops.outcome.wake
          /\ Len(loops'.runs) < Len(loops.runs)
             => /\ loops'.outcome.pc = "sleeping"
                /\ loops'.outcome.wake = now + outcome_check_interval
          /\ Did("update_all_scores")
             => /\ now >= loops.conviction.wake
                /\ loops'.conviction.wake = now + conviction_update_interval
                /\ loops'.runs = loops.runs]_vars

\* a run of check_pending_alerts that started at minute 32 and is still in
\* progress at minute 62, when the loop's sleep would have been over, with
\* one of its two alerts checked
C25_Witness ==
    /\ now = 62
    /\ Len(loops.runs) = 1
    /\ Len(loops.runs[1].todo) = 1
    /\ Len(loops.runs[1].outcomes) = 1
    /\ loops.runs[1].outcomes[1].alert_age_mins = 32
    /\ loops.outcome.pc = "awaiting"

\* the second run of update_all_scores, six hours after the first
SecondScoreRun ==
    /\ out.op = "update_all_scores" /\ out.at = 361
    /\ loops.conviction.wake = 361 + conviction_update_interval

\* the second run of check_pending_alerts, after the first has returned
SecondOutcomeRun ==
    /\ Len(loops.runs) = 1
    /\ loops.outcome.pc = "awaiting"
    /\ \E k \in DOMAIN alerts : alerts[k].outcome_checked_at = 32
    /\ now = 62

\* C27: run_backtest is a pure replay: whatever the configuration and the
\* rows stored, a run creates, changes and deletes no Wallet, Token, Trade,
\* Alert or ClusterEvent row.
C27_BacktestLeavesStores ==
    [][Did("run_backtest")
       => UNCHANGED <<limiter, calls, wallets, tokens, trades, clusters, alerts>>]_vars

\* a backtest that made a trade of each of the two alerts stored, one of
\* them with an outcome recorded, from the buys stored an hour after them
C27_Witness ==
    /\ out.op = "run_backtest"
    /\ Len(out.backtest[1].trades) = 2
    /\ Len(alerts) = 2 /\ Len(trades) = 2
    /\ \E k \in DOMAIN alerts : alerts[k].outcome_checked_at # None
    /\ \E k \in DOMAIN alerts : alerts[k].outcome_checked_at = None
    /\ \A k \in DOMAIN alerts : alerts[k].outcome_pnl # <<0>>

\* backtests that left the exit by each of the other ways
ExitByTakeProfit ==
    /\ out.op = "run_backtest"
    /\ \E i \in DOMAIN out.backtest[1].trades :
          /\ out.backtest[1].trades[i].exit_reason = "take_profit"
          /\ out.backtest[1].trades[i].pnl_pct = 50

ExitByTimeout ==
    /\ out.op = "run_backtest"
    /\ \E i \in DOMAIN out.backtest[1].trades :
          /\ out.backtest[1].trades[i].exit_reason = "timeout"
          /\ out.backtest[1].trades[i].pnl_pct = -10

ExitUnknown ==
    /\ out.op = "run_backtest"
    /\ \E i \in DOMAIN out.backtest[1].trades :
          out.backtest[1].trades[i].exit_reason = "unknown"

FlaggedTokenSkipped ==
    /\ out.op = "run_backtest"
    /\ out.backtest[1].config.skip_rugged_tokens
    /\ out.backtest[1].config.min_wallet_win_rate = 65
    /\ alerts # << >>
    /\ \A k \in DOMAIN alerts : tokens[alerts[k].token_id].is_rugged
    /\ out.backtest[1].trades = << >>

FlaggedTokenTraded ==
    /\ out.op = "run_backtest"
    /\ \E i \in DOMAIN out.backtest[1].trades :
          /\ tokens[out.backtest[1].trades[i].token_address].is_rugged
          /\ out.backtest[1].trades[i].pnl_pct = -90

\* C28: a backtest result with no losing trade and at least one winning
\* trade has profit_factor = infinity.
C28_ProfitFactorInfinite ==
    out.op = "run_backtest"
    => \A i \in DOMAIN out.backtest :
          (out.backtest[i].losing_trades = 0 /\ out.backtest[i].winning_trades >= 1)
          => out.backtest[i].profit_factor = Infinity

\* a result of two winning trades
C28_Witness ==
    /\ out.op = "run_backtest"
    /\ out.backtest[1].winning_trades = 2
    /\ out.backtest[1].losing_trades = 0
    /\ out.backtest[1].total_pnl_sol > 0
    /\ out.backtest[1].profit_factor = Infinity

\* a result of a winning and a losing trade: a finite profit factor
ProfitFactorFinite ==
    /\ out.op = "run_backtest"
    /\ out.backtest[1].winning_trades = 1
    /\ out.backtest[1].losing_trades = 1
    /\ ~out.backtest[1].profit_factor.inf
    /\ out.backtest[1].profit_factor.num > 0

\* a result without trades: the statistics are not computed
NoTradesNoStats ==
    /\ out.op = "run_backtest"
    /\ alerts # << >>
    /\ out.backtest[1].total_trades = 0
    /\ out.backtest[1].profit_factor = Ratio(0, 1)

\* the operations of the signal processor that are logged in out (the
\* webhook endpoint reaches it through handle_webhook); process_buy_event
\* and handle_webhook called directly are logged in last and leave out alone
SignalProcessorOps == {"create_alert", "helius_webhook"}
ScoreWriterOps == {"update_all_scores"}
OutcomeWriterOps == {"check_alert_outcome", "check_pending_alerts"}
Logged_op(ops) == out'.n # out.n /\ out'.op \in ops

\* C21: single-writer ownership holds for every operation: a step that is
\* not the signal processor's creates no Trade, Alert or ClusterEvent row
\* (and no step deletes one); a step that is not update_all_scores leaves
\* the conviction_score of every wallet as it was; a step that is not an
\* outcome check leaves outcome_pnl and outcome_checked_at of every alert and
\* is_rugged of every token as they were. In particular process_buy_event,
\* create_alert, enrichment and run_backtest leave all of these unchanged.
C21_SingleWriterOwnership ==
    [][/\ Len(trades') >= Len(trades) /\ Len(alerts') >= Len(alerts)
       /\ Len(clusters') >= Len(clusters)
       /\ (out'.n # out.n /\ out'.op \notin SignalProcessorOps)
          => /\ Len(trades') = Len(trades)
             /\ Len(alerts') = Len(alerts)
             /\ Len(clusters') = Len(clusters)
       /\ (now' # now) => /\ Len(trades') = Len(trades)
                          /\ Len(alerts') = Len(alerts)
                          /\ Len(clusters') = Len(clusters)
       /\ ~Logged_op(ScoreWriterOps)
          => \A a \in DOMAIN wallets :
                /\ a \in DOMAIN wallets'
                /\ wallets'[a].conviction_score = wallets[a].conviction_score
       /\ ~Logged_op(OutcomeWriterOps)
          => /\ \A k \in DOMAIN alerts :
                   /\ alerts'[k].outcome_pnl = alerts[k].outcome_pnl
                   /\ alerts'[k].outcome_checked_at = alerts[k].outcome_checked_at
             /\ \A c \in DOMAIN tokens :
                   /\ c \in DOMAIN tokens'
                   /\ tokens'[c].is_rugged = tokens[c].is_rugged
       /\ \A a \in DOMAIN wallets' \ DOMAIN wallets :
             wallets'[a].conviction_score = 0
       /\ \A k \in DOMAIN alerts' \ DOMAIN alerts :
             /\ alerts'[k].outcome_pnl = << >>
             /\ alerts'[k].outcome_checked_at = None
       /\ \A c \in DOMAIN tokens' \ DOMAIN tokens : ~tokens'[c].is_rugged]_vars

\* a state in which each owner has written: a trade and an alert stored, the
\* alert's outcome recorded and its token flagged, both wallets scored, and
\* then the first wallet added again with /add, which reset its win rate
\* and left its score
C21_Witness ==
    /\ out.op = "cmd_add_wallet" /\ out.arg = "W1"
    /\ wallets["W1"].win_rate = 0
    /\ wallets["W1"].conviction_score > 0
    /\ Len(trades) >= 1 /\ Len(alerts) = 1
    /\ alerts[1].outcome_checked_at = 30
    /\ tokens["T1"].is_rugged

\* a backtest after the scoring and the outcome check, and a discovery that
\* stored a new wallet beside the scored ones
BacktestAfterOwners ==
    /\ out.op = "run_backtest" /\ now = 60
    /\ \E a \in DOMAIN wallets : wallets[a].conviction_score > 0
    /\ Len(alerts) = 1 /\ alerts[1].outcome_pnl # << >>

DiscoveredBesideScored ==
    /\ out.op = "discovery_loop" /\ out.arg = "W3"
    /\ "W3" \in DOMAIN wallets /\ wallets["W3"].conviction_score = 0
    /\ "W3" \in tracked
    /\ wallets["W1"].conviction_score > 0

RemovedKeepsScore ==
    /\ out.op = "cmd_remove_wallet"
    /\ ~wallets["W2"].is_active /\ wallets["W2"].conviction_score > 0

EnrichedAfterWebhook ==
    /\ out.op = "enrich_and_validate_signal"
    /\ Len(trades) = 2
    /\ tokens["T1"].market_cap_sol = 300

\* ---- C31
Deactivated(a) == a \in DOMAIN wallets /\ ~wallets[a].is_active

\* the buy given to the step, when the step is a call of process_buy_event
\* or a delivery to handle_webhook that reached it
CallFor(a) == last' # last /\ last'.called /\ last'.ev.wallet_address = a

\* C31: once a wallet is deactivated, a buy event from it is treated as the
\* buy of an untracked wallet: the call of process_buy_event or the delivery
\* to handle_webhook that carries it records no Trade and returns no signal
\* (so that no such buy is among the trades a cluster is counted from).
C31_DeactivatedIsUntracked ==
    [][\A a \in StoredWallets :
          Deactivated(a) =>
            /\ \A i \in DOMAIN trades' :
                  trades'[i].wallet_id = a => i \in DOMAIN trades
            /\ CallFor(a) => ~last'.known /\ last'.signals = << >>]_vars

\* a buy of the deactivated W1 is stored
TradeOfDeactivated ==
    /\ Deactivated("W1")
    /\ \E i \in DOMAIN trades : trades[i].wallet_id = "W1"
    /\ last.called /\ last.known /\ last.ev.wallet_address = "W1"

\* a cluster signal is returned that counts the deactivated W1
ClusterWithDeactivated ==
    /\ Deactivated("W1")
    /\ \A i \in DOMAIN trades : trades[i].block_time = 1
    /\ \E i \in DOMAIN last.signals :
          /\ last.signals[i].signal_type = CLUSTER_BUY
          /\ \E j \in DOMAIN last.signals[i].wallets :
                last.signals[i].wallets[j] = "W1"

\* What holds: a handler constructed after the deactivation does not pass
\* the wallet's buys on to process_buy_event.
DeactivatedBeforeStartupSkippedByWebhook ==
    [][\A a \in StoredWallets :
          a \notin tracked /\ last' # last /\ last'.op = "handle_webhook"
             => ~last'.called \/ last'.ev.wallet_address # a]_vars

\* a delivery of W1's buy to a handler constructed after the deactivation
SkippedAfterRestart ==
    /\ "W1" \notin tracked
    /\ last.op = "handle_webhook" /\ ~last.called
    /\ trades = << >>

\* ---- C32
FlaggedInStep(c) ==
    c \in DOMAIN tokens /\ ~tokens[c].is_rugged /\ tokens'[c].is_rugged

\* C32: whatever check or enrichment is abandoned at one of its awaits, in
\* every state each Alert has outcome_pnl and outcome_checked_at both null
\* or both set, and a Token is flagged is_rugged only by the step that
\* persists, on an alert of that token, an outcome_pnl of -80 or less.
C32_AbandonedLeavesStoreConsistent ==
    /\ [](\A k \in DOMAIN alerts :
             alerts[k].outcome_pnl = << >> <=> alerts[k].outcome_checked_at = None)
    /\ [][\A c \in DOMAIN tokens :
             FlaggedInStep(c) =>
                \E k \in DOMAIN alerts :
                    /\ alerts'[k].token_id = c
                    /\ alerts'[k].outcome_pnl # << >>
                    /\ alerts'[k].outcome_pnl[1] <= RUG_THRESHOLD_PCT
                    /\ alerts'[k].outcome_checked_at = now]_vars

\* a run cancelled after it flagged the token on its first alert, with the
\* second alert left unchecked
C32_Witness ==
    /\ loops.outcome.pc = "cancelled" /\ loops.runs = << >>
    /\ Len(alerts) = 2
    /\ alerts[1].outcome_pnl = <<-80>> /\ alerts[1].outcome_checked_at = 32
    /\ alerts[2].outcome_pnl = << >> /\ alerts[2].outcome_checked_at = None
    /\ tokens["T1"].is_rugged

\* an enrichment cancelled after the token's market cap was committed
EnrichmentCancelledAfterCommit ==
    /\ out.op = "enrich_and_validate_signal" /\ out.failure = "cancelled"
    /\ tokens["T1"].market_cap_sol = 300
    /\ \A i \in DOMAIN held : ~held[i].rug_checked

\* a run cancelled before its first check: nothing written
CancelledBeforeFirstCheck ==
    /\ loops.outcome.pc = "cancelled"
    /\ \A k \in DOMAIN alerts : alerts[k].outcome_pnl = << >>
    /\ ~tokens["T1"].is_rugged

\* ---- C33
BoughtBy(a) ==
    {trades[i].token_id : i \in {j \in DOMAIN trades :
        trades[j].wallet_id = a /\ trades[j].trade_type = "BUY"}}
RuggedBoughtBy(a) == {c \in BoughtBy(a) : tokens[c].is_rugged}
ShareNotRugged(a) ==
    IF BoughtBy(a) = {} THEN 100
    ELSE ((Cardinality(BoughtBy(a)) - Cardinality(RuggedBoughtBy(a))) * 100)
           \div Cardinality(BoughtBy(a))
RowsOn(c) == Cardinality({i \in DOMAIN trades : trades[i].token_id = c})

\* C33: the rug-avoidance input of every score computed is the percentage
\* of the distinct tokens the wallet bought that are not flagged: each flagged
\* token counts once, and the value is between 0 and 100.
C33_RugAvoidanceIsShareOfTokens ==
    [][\A op \in ScoringSteps : \A a \in Scored(op) :
          /\ out'.scores[a].metrics.rugged_tokens = Cardinality(RuggedBoughtBy(a))
          /\ rug_avoidance(out'.scores[a].metrics) = ShareNotRugged(a)
          /\ rug_avoidance(out'.scores[a].metrics) \in 0..100]_vars

\* the wallet bought one token, flagged, eleven times: 11 rugged of 1 token
RugAvoidanceNegative ==
    /\ out.op = "calculate_score" /\ out.arg = "W1"
    /\ out.scores["W1"].metrics.tokens_traded = 1
    /\ out.scores["W1"].metrics.rugged_tokens >= 11
    /\ rug_avoidance(out.scores["W1"].metrics) < 0

\* What holds: the input is that percentage when no flagged token the
\* wallet bought has more than one Trade row.
RugAvoidanceWithOneRowPerToken ==
    [][\A op \in ScoringSteps : \A a \in Scored(op) :
          (\A c \in RuggedBoughtBy(a) : RowsOn(c) = 1) =>
             /\ out'.scores[a].metrics.rugged_tokens = Cardinality(RuggedBoughtBy(a))
             /\ rug_avoidance(out'.scores[a].metrics) = ShareNotRugged(a)
             /\ rug_avoidance(out'.scores[a].metrics) \in 0..100]_vars

\* one flagged token of three, bought once: 66 percent
RugAvoidanceTwoThirds ==
    /\ out.op = "calculate_score" /\ out.arg = "W1"
    /\ out.scores["W1"].metrics.tokens_traded = 3
    /\ out.scores["W1"].metrics.rugged_tokens = 1
    /\ rug_avoidance(out.scores["W1"].metrics) = 66

\* ---- C34
Stats == out'.returned[1]
StatsDays == out'.arg

\* C34: the statistics returned agree with the partition of the outcomes:
\* over the checked alerts of the window the winner, loser and rugged sets
\* are pairwise disjoint, win_rate is winners / (winners + losers) * 100,
\* and winners + losers + rugged + pending is at most total_alerts.
C34_StatsFollowPartition ==
    [][Did("get_performance_stats") =>
         /\ stats_winners(alerts, StatsDays, now)
              \cap stats_losers(alerts, StatsDays, now) = {}
         /\ stats_winners(alerts, StatsDays, now)
              \cap stats_rugged(alerts, StatsDays, now) = {}
         /\ stats_losers(alerts, StatsDays, now)
              \cap stats_rugged(alerts, StatsDays, now) = {}
         /\ Stats.winners + Stats.losers > 0
              => Stats.win_rate = (Stats.winners * 100) \div (Stats.winners + Stats.losers)
         /\ Stats.winners + Stats.losers + Stats.rugged + Stats.pending
              <= Stats.total_alerts]_vars

\* one alert checked at -80 percent: counted as loser and as rugged, two
\* counts for a total of one alert
RuggedCountedAsLoser ==
    /\ out.op = "get_performance_stats"
    /\ out.returned[1].total_alerts = 1
    /\ out.returned[1].losers = 1 /\ out.returned[1].rugged = 1

\* a winner and a rugged alert: the win rate is 50 percent, the rugged
\* alert being among the resolved
WinRateCountsRugged ==
    /\ out.op = "get_performance_stats"
    /\ out.returned[1].winners = 1 /\ out.returned[1].rugged = 1
    /\ out.returned[1].total_alerts = 2
    /\ out.returned[1].win_rate = 50

\* What holds: the rugged are among the losers, the winners are apart from
\* both, win_rate is winners over winners + losers, and winners + losers +
\* pending is at most total_alerts.
StatsWithRuggedAmongLosers ==
    [][Did("get_performance_stats") =>
         /\ stats_rugged(alerts, StatsDays, now) \subseteq stats_losers(alerts, StatsDays, now)
         /\ stats_winners(alerts, StatsDays, now)
              \cap stats_losers(alerts, StatsDays, now) = {}
         /\ Stats.winners + Stats.losers > 0
              => Stats.win_rate = (Stats.winners * 100) \div (Stats.winners + Stats.losers)
         /\ Stats.winners + Stats.losers + Stats.pending <= Stats.total_alerts]_vars

\* an alert checked at 0 percent is in no category, and one not checked is
\* pending
UncategorisedAndPending ==
    /\ out.op = "get_performance_stats"
    /\ out.returned[1].total_alerts = 2 /\ out.returned[1].pending = 1
    /\ out.returned[1].winners = 0 /\ out.returned[1].losers = 0

\* alerts older than the window: the statistics are all zero
OutsideWindow ==
    /\ out.op = "get_performance_stats" /\ now = 8 * day_minutes
    /\ Len(alerts) = 2 /\ alerts[1].outcome_pnl # << >>
    /\ out.returned[1].total_alerts = 0

\* ---- C35
Eligible(k) == k \in DOMAIN alerts /\ now - alerts[k].created_at >= min_age_minutes
OutcomeChecked(k) == k \in DOMAIN alerts /\ alerts[k].outcome_checked_at # None
FailsAlways(k) == alerts[k].token_id = "T1"

FailingAlertsKeepTheBatch ==
    /\ \A k \in DOMAIN alerts : FailsAlways(k) => ~OutcomeChecked(k)
    /\ \A i \in DOMAIN loops.runs : \A j \in DOMAIN loops.runs[i].todo :
          Cardinality({k \in 1..(loops.runs[i].todo[j] - 1) : FailsAlways(k)})
              < batch_limit

\* three runs, at minutes 32, 62 and 92, have gone over the same fifty
\* failing alerts; the alert of T2 behind them is unchecked
StarvedBehindFailing ==
    /\ now = 92 /\ Len(alerts) = batch_limit + 1
    /\ loops.outcome.pc = "sleeping" /\ loops.outcome.wake = 92 + outcome_check_interval
    /\ ~OutcomeChecked(batch_limit + 1)

\* What holds: with fewer failing alerts than the batch limit the alert
\* behind them is checked.
CheckedBehindFewerFailing ==
    \A k \in 1..batch_limit :
        (Len(alerts) = batch_limit /\ Eligible(k) /\ ~FailsAlways(k)) ~> OutcomeChecked(k)

CheckedAtFirstRun ==
    /\ Len(alerts) = batch_limit /\ OutcomeChecked(batch_limit)
    /\ alerts[batch_limit].outcome_checked_at = 32

\* ---- C36
\* the check of the step was given the default price of a failed lookup
CheckedWithoutPrice ==
    /\ Did("check_alert_outcome")
    /\ out'.results # << >> /\ out'.results[1].price_current = 0

\* C36: a check whose metadata carries the default price 0, the provider
\* having supplied none, does not classify the alert as RUGGED and does
\* not set is_rugged on the token.
C36_NoPriceIsNotRugged ==
    [][CheckedWithoutPrice =>
         /\ out'.results[1].status # RUGGED
         /\ \A c \in DOMAIN tokens : tokens'[c].is_rugged = tokens[c].is_rugged]_vars

\* the alert of the buy recorded at a market cap, checked without a price:
\* a return of -100 percent, RUGGED, and the token flagged
RuggedWithoutPrice ==
    /\ out.op = "check_alert_outcome" /\ out.results # << >>
    /\ out.results[1].price_current = 0 /\ out.results[1].price_at_alert > 0
    /\ out.results[1].return_pct = -100 /\ out.results[1].status = RUGGED
    /\ tokens[out.results[1].token_ca].is_rugged
    /\ alerts[out.arg].outcome_pnl = <<-100>>

\* What holds: without a market cap on the trade of the alert the price at
\* the alert falls back to the current one, the return is 0 and the check
\* is PENDING, the token left as it was.
NoPriceNoMarketCapIsPending ==
    [][/\ CheckedWithoutPrice
       /\ \A j \in trigger_trades(trades, alerts[out'.arg]) :
             ~Truthy(trades[j].mcap_at_trade)
       => /\ out'.results[1].return_pct = 0
          /\ out'.results[1].status = PENDING
          /\ tokens' = tokens]_vars

PendingWithoutPrice ==
    /\ out.op = "check_alert_outcome" /\ out.results # << >>
    /\ out.results[1].price_current = 0 /\ out.results[1].token_ca = "T2"
    /\ out.results[1].status = PENDING /\ ~tokens["T2"].is_rugged

\* ---- C37
\* a step of handle_webhook: the log is that of a delivery and nothing else
\* was called
WebhookStep == last'.op = "handle_webhook" /\ out' = out /\ now' = now

\* C37: the buys that enter through handle_webhook carry neither total
\* supply nor market cap: every Trade recorded by a delivery has
\* supply_percentage 0 and mcap_at_trade null, and, the supply threshold
\* being positive, no delivery returns a HIGH_CONVICTION signal or creates a
\* HIGH_CONVICTION alert.
C37_WebhookNeverHighConviction ==
    /\ [](high_conviction_min_supply_pct > 0)
    /\ [][WebhookStep =>
            /\ \A i \in DOMAIN trades' \ DOMAIN trades :
                  /\ trades'[i].supply_percentage = 0
                  /\ trades'[i].mcap_at_trade = None
            /\ last'.called =>
                  /\ last'.ev.total_supply = None /\ last'.ev.market_cap = None
                  /\ last'.supply_pct = 0
                  /\ HIGH_CONVICTION \notin SignalTypesOf(last'.signals)
            /\ \A k \in DOMAIN alerts' \ DOMAIN alerts :
                  alerts'[k].alert_type # HIGH_CONVICTION]_vars

\* a delivery that recorded a buy of 1 SOL for 0.5 percent of the supply
\* stored for the token, which a direct call given the supply signals as
\* high conviction
C37_Witness ==
    /\ last.op = "handle_webhook" /\ last.called /\ last.known /\ ~last.dup
    /\ last.ev.sol_amount >= high_conviction_min_sol
    /\ tokens[last.ev.token_ca].total_supply = 1000
    /\ supply_percentage(last.ev.token_amount, 1000) >= high_conviction_min_supply_pct
    /\ HIGH_CONVICTION \notin SignalTypesOf(last.signals)
    /\ \E i \in DOMAIN trades :
          /\ trades[i].tx_signature = last.ev.tx_signature
          /\ trades[i].supply_percentage = 0 /\ trades[i].mcap_at_trade = None

\* a delivery that created an alert, of a cluster
WebhookClusterAlert ==
    /\ last.op = "handle_webhook" /\ last.newAlerts = 1
    /\ alerts[Len(alerts)].alert_type = CLUSTER_BUY
    /\ alerts[Len(alerts)].max_supply_pct = 0

\* ---- C38
Backtest == out'.backtest[1]

\* C38: every Alert of a VOLUME_SPIKE signal has wallet_count 0,
\* avg_win_rate 0 and no wallets in its trigger data, and a backtest whose
\* min_wallet_win_rate is positive simulates no trade for such an alert, so
\* that its stats_by_type has no volume_spike entry.
C38_VolumeSpikeAlertsUntraded ==
    /\ [](\A k \in DOMAIN alerts :
             alerts[k].alert_type = VOLUME_SPIKE =>
                /\ alerts[k].wallet_count = 0
                /\ alerts[k].avg_win_rate = 0
                /\ alerts[k].trigger_wallets = << >>)
    /\ [][Did("run_backtest") /\ Backtest.config.min_wallet_win_rate > 0 =>
            /\ \A i \in DOMAIN Backtest.trades :
                  Backtest.trades[i].signal_type # VOLUME_SPIKE
            /\ VOLUME_SPIKE \notin DOMAIN Backtest.stats_by_type]_vars

\* a backtest with a filter of 1 over a volume-spike alert and a
\* high-conviction alert of the same buy: the latter alone is traded
C38_Witness ==
    /\ out.op = "run_backtest"
    /\ out.backtest[1].config.min_wallet_win_rate = 1
    /\ \E k \in DOMAIN alerts :
          /\ alerts[k].alert_type = VOLUME_SPIKE
          /\ alerts[k].created_at >= out.backtest[1].config.start_date
          /\ ~tokens[alerts[k].token_id].is_rugged
          /\ Truthy(tokens[alerts[k].token_id].market_cap_sol)
    /\ DOMAIN out.backtest[1].stats_by_type = {HIGH_CONVICTION}

\* without the filter the volume-spike alert is traded and has its entry
VolumeSpikeTradedUnfiltered ==
    /\ out.op = "run_backtest"
    /\ out.backtest[1].config.min_wallet_win_rate = 0
    /\ VOLUME_SPIKE \in DOMAIN out.backtest[1].stats_by_type
    /\ out.backtest[1].stats_by_type[VOLUME_SPIKE].trades = 1

\* ---- C39
Payload == out'.arg
PerTx == out'.results
TrackedBuy(tx) ==
    /\ ~parse_raises(tx)
    /\ _parse_transaction(tx, now) # << >>
    /\ tx.feePayer \in tracked
\* the transactions of the payload whose parsing or processing raised
RaisedAt == {i \in DOMAIN Payload : parse_raises(Payload[i])
                                     \/ (TrackedBuy(Payload[i]) /\ i \in out'.failed)}
SignalsGiven == [i \in DOMAIN PerTx |-> Len(PerTx[i].signals)]

\* C39: in a delivery of a payload a transaction whose parsing or
\* processing raises does not keep the others from being processed: each
\* buy of a tracked wallet among the others is passed to process_buy_event
\* and has its Trade stored; and every signal of a transaction that was
\* processed has its entry in the returned list, with the id of an Alert of
\* its type on its token.
C39_FailuresIsolatedPerTransaction ==
    [][Did("handle_webhook") =>
         /\ Len(PerTx) = Len(Payload)
         /\ \A i \in DOMAIN Payload :
               /\ PerTx[i].raised <=> i \in RaisedAt
               /\ i \notin RaisedAt /\ TrackedBuy(Payload[i]) =>
                     /\ PerTx[i].called
                     /\ \E j \in DOMAIN trades' :
                           trades'[j].tx_signature = Payload[i].signature
         /\ Len(out'.returned) = SumOver(SignalsGiven, DOMAIN PerTx)
         /\ Len(out'.returned) = Len(alerts') - Len(alerts)
         /\ \A e \in DOMAIN out'.returned :
               /\ out'.returned[e].alert_id = Len(alerts) + e
               /\ alerts'[out'.returned[e].alert_id].alert_type = out'.returned[e].type
               /\ alerts'[out'.returned[e].alert_id].token_id = out'.returned[e].token
         /\ \A i \in DOMAIN Payload : \A s \in DOMAIN PerTx[i].signals :
               \E e \in DOMAIN out'.returned :
                  /\ out'.returned[e].type = PerTx[i].signals[s]
                  /\ out'.returned[e].token = Payload[i].mint]_vars

\* a payload whose first transaction raised in the parser and whose second
\* in the processing, and whose third, which completes no cluster alone,
\* was recorded
C39_Witness ==
    /\ out.op = "handle_webhook" /\ Len(out.arg) = 3
    /\ out.results[1].raised /\ out.results[2].raised /\ ~out.results[3].raised
    /\ parse_raises(out.arg[1]) /\ 2 \in out.failed
    /\ out.results[3].called
    /\ \E j \in DOMAIN trades : trades[j].tx_signature = out.arg[3].signature

\* a payload of three whose first transaction raised and whose other two
\* make a cluster: one entry returned, for the alert of the cluster
ClusterAfterFailure ==
    /\ out.op = "handle_webhook" /\ Len(out.arg) = 3
    /\ out.results[1].raised /\ ~out.results[2].raised /\ ~out.results[3].raised
    /\ Len(out.returned) = 1 /\ out.returned[1].type = CLUSTER_BUY
    /\ alerts[out.returned[1].alert_id].alert_type = CLUSTER_BUY

\* The calls of identifier that were admitted at a second after from and not
\* after to.
AdmittedIn(identifier, from, to) ==
    {k \in DOMAIN calls : /\ calls[k].identifier = identifier
                          /\ calls[k].allowed
                          /\ from < calls[k].at
                          /\ calls[k].at <= to}

\* The admitted calls of the caller of call k that came before it and less
\* than window_seconds before it.
AdmittedBefore(k) ==
    {j \in AdmittedIn(calls[k].identifier, calls[k].at - limiter.window_seconds,
                      calls[k].at) : j < k}

RECURSIVE AdmittedTimes(_, _, _)
AdmittedTimes(identifier, from, k) ==
    IF k > Len(calls) THEN << >>
    ELSE IF k \in AdmittedIn(identifier, from, time_time(now))
         THEN <<calls[k].at>> \o AdmittedTimes(identifier, from, k + 1)
         ELSE AdmittedTimes(identifier, from, k + 1)

\* C40: RateLimiter.is_allowed admits at most max_requests calls of one
\* identifier within any window of window_seconds; a rejected call is not
\* recorded and does not extend the block; identifiers are limited
\* independently. Over the history of the calls: every window of
\* window_seconds holds at most max_requests admitted calls of an identifier;
\* a call is admitted exactly when fewer than max_requests calls of the same
\* identifier were admitted in the window_seconds before it, whatever calls
\* were rejected and whatever other identifiers did; and the timestamps the
\* limiter keeps for an identifier within the current window are those of
\* its admitted calls and no others.
C40_AtMostMaxRequestsPerWindow ==
    /\ \A identifier \in LimiterClients : \A t \in LimiterTimes :
          Cardinality(AdmittedIn(identifier, time_time(t) - limiter.window_seconds,
                                 time_time(t))) <= limiter.max_requests
    /\ \A k \in DOMAIN calls :
          calls[k].allowed <=> Cardinality(AdmittedBefore(k)) < limiter.max_requests
    /\ \A identifier \in LimiterClients :
          cleaned_requests(limiter, identifier, now)
            = AdmittedTimes(identifier, time_time(now) - limiter.window_seconds, 1)

\* A client was rejected, another client was admitted at that same second,
\* and the rejected client was admitted again less than window_seconds after
\* its rejected call.
C40_Witness ==
    \E k \in DOMAIN calls : \E j \in DOMAIN calls : \E m \in DOMAIN calls :
        /\ ~calls[k].allowed
        /\ j > k /\ calls[j].identifier # calls[k].identifier
        /\ calls[j].allowed /\ calls[j].at = calls[k].at
        /\ m > k /\ calls[m].identifier = calls[k].identifier
        /\ calls[m].allowed
        /\ calls[m].at < calls[k].at + limiter.window_seconds

\* The limiter's dict after cleanup removed a client's entry, the client
\* admitted again afterwards.
AdmittedAfterCleanup ==
    /\ out.op = "is_allowed" /\ out.returned = <<TRUE>>
    /\ Cardinality({k \in DOMAIN calls : calls[k].identifier = out.arg}) >= 3
    /\ limiter.requests[out.arg] = <<time_time(now)>>
    /\ DOMAIN limiter.requests = {out.arg}

====
